---- MODULE Spec2Model ----
(***************************************************************************)
(* A model of the PostgreSQL session store of src/tokio_postgres_sessions.rs *)
(* (PostgresStore: migrate, create, save, load, delete, delete_expired)     *)
(* running against one PostgreSQL database.                                *)
(*                                                                         *)
(* The database is modelled at the level of committed rows and catalog     *)
(* entries.  Sessions run at PostgreSQL's default isolation level, READ    *)
(* COMMITTED: every statement sees the rows committed when it runs, a      *)
(* statement that needs a row (or unique-index key) written by a           *)
(* transaction still in progress waits for that transaction to end.  The   *)
(* session time zone is UTC, so `now() at time zone 'utc'` compared with a *)
(* timestamptz column is the backend's current time.  Time is counted in   *)
(* ticks of the timestamptz column.                                        *)
(***************************************************************************)
EXTENDS Integers, Sequences, FiniteSets, TLC

\* ------------------------------------------------------------------ bounds
NumProcs == 2        \* concurrent callers of the store
MaxId == 2           \* session ids are 1..MaxId
MaxPayload == 1      \* session payloads are 1..MaxPayload
MaxTime == 2         \* both clocks run over 0..MaxTime
NumStores == 2       \* store instances that run migrate
MaxConn == 1         \* connections open on the server's handle: 0..MaxConn
MaxLen == 3          \* names given to with_schema_name / with_table_name have 0..MaxLen characters

Procs == 1..NumProcs
Ids == 1..MaxId
Payloads == 1..MaxPayload
Times == 0..MaxTime
Stores == 1..NumStores

VARIABLES
  rows,        \* the committed rows of "schema"."table": records [id, data, expiry_date]
  dbNow,       \* the backend's clock, read by now()
  appNow,      \* the application host's clock, read by OffsetDateTime::now_utc()
  pc,          \* pc[p]: where caller p stands in its operation
  op,          \* op[p]: the operation caller p runs
  record,      \* record[p]: the Record argument of create / save (create rewrites its id)
  session_id,  \* session_id[p]: the Id argument of load / delete
  now,         \* now[p]: the local `now` of load
  tx,          \* tx[p]: the row written by p's open transaction and not yet committed
  result,      \* result[p]: what the operation returned
  in_use,      \* the connections of the pool that are handed out
  others,      \* how many of them are held by other subsystems of the application
  pg_namespace,  \* the committed schemas of the database: records [nspname, by]
  pg_class,      \* the committed tables of the database: records [nspname, relname, by]
  mpc,           \* mpc[s]: where store instance s stands in migrate
  mtx,           \* mtx[s]: the transaction of migrate: what it created, whether it is aborted
  mresult,       \* mresult[s]: what migrate returned
  bname,         \* the name given to with_schema_name / with_table_name
  bstore,        \* the store value a chain of with_schema_name / with_table_name holds
  bresult,       \* what the last with_schema_name / with_table_name returned
  rpc,           \* where server::run stands
  rresult,       \* what server::run returned
  servers,       \* the servers started on the shared Handle
  task,          \* the state of the task spawned for continuously_delete_expired
  gpc,           \* where the graceful_shutdown task stands
  external_token,  \* whether run was given a CancellationToken
  requested,     \* shutdown was requested: the token is cancelled / the signal was sent
  connections,   \* handle.connection_count()
  tls_enabled,   \* args.server.tls_enabled
  tls_cert,      \* args.server.tls_cert
  tls_key,       \* args.server.tls_key
  tls_config_result,  \* the local tls_config_result of run
  cpc,           \* where load_config_with_args stands
  setting,       \* the field of Server that is followed
  cli,           \* its value on the command line
  env,           \* its value in the environment
  files,         \* files[i]: its value in the i-th configuration file
  cfg            \* its value in cfg

storeVars == <<rows, dbNow, appNow, pc, op, record, session_id, now, tx, result, in_use, others>>
migrateVars == <<pg_namespace, pg_class, mpc, mtx, mresult>>
builderVars == <<bname, bstore, bresult>>
tlsVars == <<tls_enabled, tls_cert, tls_key, tls_config_result>>
serverVars == <<rpc, rresult, servers, task, gpc, external_token, requested, connections, tlsVars>>
configVars == <<cpc, setting, cli, env, files, cfg>>
envVars == <<builderVars, serverVars, configVars>>
vars == <<storeVars, migrateVars, envVars>>

\* ------------------------------------------------------------------ values
\* Option<T>
None == <<>>
Some(v) == <<v>>

\* The files load_config_with_args gives to the builder, in its order.
ConfigFiles ==
  <<"config/local.toml", "/etc/slipstream/secrets.toml",
    "/etc/slipstream/config.toml", "config/default.toml">>

NoRecord == [id |-> 0, data |-> 0, expiry_date |-> 0]
NoRow == [id |-> <<>>, data |-> <<>>, expiry_date |-> 0]

Records == [id : Ids, data : Payloads, expiry_date : Times]

NoTimestamp == <<"ts", 0>>

NoResult == [t |-> "None"]
Ok == [t |-> "Ok"]
OkSome(r) == [t |-> "Ok", some |-> TRUE, value |-> r]
OkNone == [t |-> "Ok", some |-> FALSE]
\* session_store::Error::{Backend, Encode, Decode}(inner.to_string())
Err(kind, inner) == [t |-> "Err", kind |-> kind, inner |-> inner]

\* PgStoreError::{Postgres, Pool, Encode, Decode, Generic}(inner)
PgStoreError(variant, inner) == [variant |-> variant, inner |-> inner]

\* (mutant) every store error is reported as Backend.
FromPgStoreErrorAsBackend(err) == Err("Backend", err.inner)

\* impl From<PgStoreError> for session_store::Error
FromPgStoreError(err) ==
  CASE err.variant = "Postgres" -> Err("Backend", err.inner)
    [] err.variant = "Pool" -> Err("Backend", err.inner)
    [] err.variant = "Decode" -> Err("Decode", err.inner)
    [] err.variant = "Encode" -> Err("Encode", err.inner)
    [] err.variant = "Generic" -> Err("Backend", err.inner)

\* Id's Display: the text of an id, the value bound to the `id text` column.
IdToString(id) == <<"id", id>>

\* (mutant) the id is left out of the encoded record.
to_vec_without_id(r) == <<0, r.data, r.expiry_date>>

\* (mutant) the expiry date is left out of the encoded record.
to_vec_without_expiry(r) == <<r.id, r.data, 0>>

\* rmp_serde::to_vec(record): the struct as an array of its fields, in order.
to_vec(r) == <<r.id, r.data, r.expiry_date>>

\* rmp_serde::from_slice(&data): bytes that are no array of three fields do not decode.
Decodable(bytes) == Len(bytes) = 3
from_slice(bytes) == [id |-> bytes[1], data |-> bytes[2], expiry_date |-> bytes[3]]

\* timestamp_from_offset: jiff::Timestamp::from_nanosecond(dt.unix_timestamp_nanos()),
\* the same instant as a jiff timestamp.
timestamp_from_offset(dt) == <<"ts", dt>>

\* The instant of a timestamp parameter, as the timestamptz column holds it.
Instant(ts) == ts[2]

\* ------------------------------------------------------------------ SQL
\* select exists(select 1 from t where id = $1)
id_exists_query(tbl, id) == \E r \in tbl : r.id = id

\* (mutant) the table has no primary key: nothing conflicts.
NoPrimaryKey(tbl, id) == FALSE

\* id text primary key: a key already present conflicts with an insert of it.
PrimaryKeyConflict(tbl, id) == \E r \in tbl : r.id = id

\* (mutant) on conflict (id) do nothing
InsertOrIgnore(tbl, id, data, expiry) ==
  IF PrimaryKeyConflict(tbl, id)
  THEN tbl
  ELSE tbl \cup {[id |-> id, data |-> data, expiry_date |-> expiry]}

\* (mutant) on conflict (id) do update set data = excluded.data
UpsertDataOnly(tbl, id, data, expiry) ==
  IF PrimaryKeyConflict(tbl, id)
  THEN {IF r.id = id THEN [r EXCEPT !.data = data] ELSE r : r \in tbl}
  ELSE tbl \cup {[id |-> id, data |-> data, expiry_date |-> expiry]}

\* insert into t (id, data, expiry_date) values ($1, $2, $3)
\* on conflict (id) do update set data = excluded.data, expiry_date = excluded.expiry_date
UpsertStmt(tbl, id, data, expiry) ==
  IF PrimaryKeyConflict(tbl, id)
  THEN {IF r.id = id THEN [r EXCEPT !.data = data, !.expiry_date = expiry] ELSE r : r \in tbl}
  ELSE tbl \cup {[id |-> id, data |-> data, expiry_date |-> expiry]}

\* (mutant) where expiry_date <= now
DeleteExpiredInclusive(tbl, dbnow) == {r \in tbl : ~(r.expiry_date <= dbnow)}

\* delete from t where expiry_date < (now() at time zone 'utc')
DeleteExpiredStmt(tbl, dbnow) == {r \in tbl : ~(r.expiry_date < dbnow)}

\* (mutant) where id = $1 and expiry_date >= $2
LoadQueryInclusive(tbl, id, at) == {r \in tbl : r.id = id /\ r.expiry_date >= at}

\* select data from t where id = $1 and expiry_date > $2
LoadQuery(tbl, id, at) == {r \in tbl : r.id = id /\ r.expiry_date > at}

\* delete from t where id = $1
DeleteStmt(tbl, id) == {r \in tbl : r.id # id}

\* The key `id` is held by a transaction of another caller that has written it and
\* has not ended: a statement that writes the key, or a row with it, waits.
Locked(p, id) == \E q \in Procs \ {p} : tx[q] # NoRow /\ tx[q].id = id

\* deadpool_postgres::Pool::builder(pool_mgr).max_size(16)
max_size == 16

\* ------------------------------------------------------------------ state
\* PostgresStore::new: the names every store instance is built with.
schema_name == <<"t","o","w","e","r","_","s","e","s","s","i","o","n","s">>
table_name == <<"s","e","s","s","i","o","n">>

\* A transaction of migrate that has created nothing.
NoTx == [schema |-> FALSE, table |-> FALSE, aborted |-> FALSE]

\* A row that this store did not write (another payload format): its data does not decode.
ForeignRow == [id |-> IdToString(1), data |-> <<>>, expiry_date |-> MaxTime]

\* The pool handles a store can be built on.
Pools == {"pgdb", "other_pool"}

\* PostgresStore::new(pool)
new(pool) == [pool |-> pool, schema_name |-> schema_name, table_name |-> table_name]

\* The store of the application, PostgresStore::new(state.pgdb()), before any
\* with_schema_name / with_table_name.
NewStore == new("pgdb")

EnvInit ==
  /\ bname = <<>>
  /\ bstore = NewStore
  /\ bresult = NoResult
  /\ rpc = "tls_config"
  /\ rresult = NoResult
  /\ servers = {}
  /\ task = "none"
  /\ gpc = "none"
  /\ external_token = "Some"
  /\ requested = FALSE
  /\ connections = 0
  /\ tls_enabled = FALSE
  /\ tls_cert = None
  /\ tls_key = None
  /\ tls_config_result = None
  /\ cpc = "start"
  /\ setting = "http_port"
  /\ cli = None
  /\ env = None
  /\ files = [i \in DOMAIN ConfigFiles |-> None]
  /\ cfg = None

Init ==
  /\ rows \in {{}, {ForeignRow}}
  /\ dbNow = 0
  /\ appNow = 0
  /\ pc = [p \in Procs |-> "idle"]
  /\ op = [p \in Procs |-> "none"]
  /\ record = [p \in Procs |-> NoRecord]
  /\ session_id = [p \in Procs |-> 0]
  /\ now = [p \in Procs |-> NoTimestamp]
  /\ tx = [p \in Procs |-> NoRow]
  /\ result = [p \in Procs |-> NoResult]
  /\ in_use = 0
  /\ others = 0
  /\ pg_namespace = {[nspname |-> schema_name, by |-> 0]}
  /\ pg_class = {[nspname |-> schema_name, relname |-> table_name, by |-> 0]}
  /\ mpc = [s \in Stores |-> "idle"]
  /\ mtx = [s \in Stores |-> NoTx]
  /\ mresult = [s \in Stores |-> NoResult]
  /\ EnvInit

\* (mutant) an operation that ends with an error keeps its connection.
FinishLeakingOnError(p, r) ==
  /\ pc' = [pc EXCEPT ![p] = "done"]
  /\ result' = [result EXCEPT ![p] = r]
  /\ tx' = [tx EXCEPT ![p] = NoRow]
  /\ in_use' = IF r.t = "Err" THEN in_use ELSE in_use - 1

\* The operation of caller p ends with result r; an open transaction that was not
\* committed is rolled back when it is dropped, and the client (the pool's Object) is
\* dropped, which returns the connection to the pool.
Finish(p, r) ==
  /\ pc' = [pc EXCEPT ![p] = "done"]
  /\ result' = [result EXCEPT ![p] = r]
  /\ tx' = [tx EXCEPT ![p] = NoRow]
  /\ in_use' = in_use - 1

\* ------------------------------------------------------------------ callers
\* A call takes a connection from the pool (self.pool.get().await) and stands before
\* its first statement; create has also opened its transaction.
CallCreate(p) ==
  /\ pc[p] = "idle"
  /\ in_use < max_size
  /\ in_use' = in_use + 1
  /\ \E r \in Records : record' = [record EXCEPT ![p] = r]
  /\ op' = [op EXCEPT ![p] = "create"]
  /\ pc' = [pc EXCEPT ![p] = "id_exists"]
  /\ UNCHANGED <<rows, dbNow, appNow, session_id, now, tx, result, others, migrateVars, envVars>>

CallSave(p) ==
  /\ pc[p] = "idle"
  /\ in_use < max_size
  /\ in_use' = in_use + 1
  /\ \E r \in Records : record' = [record EXCEPT ![p] = r]
  /\ op' = [op EXCEPT ![p] = "save"]
  /\ pc' = [pc EXCEPT ![p] = "save_with_conn"]
  /\ UNCHANGED <<rows, dbNow, appNow, session_id, now, tx, result, others, migrateVars, envVars>>

CallLoad(p) ==
  /\ pc[p] = "idle"
  /\ in_use < max_size
  /\ in_use' = in_use + 1
  /\ \E i \in Ids : session_id' = [session_id EXCEPT ![p] = i]
  /\ op' = [op EXCEPT ![p] = "load"]
  /\ pc' = [pc EXCEPT ![p] = "now"]
  /\ UNCHANGED <<rows, dbNow, appNow, record, now, tx, result, others, migrateVars, envVars>>

CallDelete(p) ==
  /\ pc[p] = "idle"
  /\ in_use < max_size
  /\ in_use' = in_use + 1
  /\ \E i \in Ids : session_id' = [session_id EXCEPT ![p] = i]
  /\ op' = [op EXCEPT ![p] = "delete"]
  /\ pc' = [pc EXCEPT ![p] = "delete"]
  /\ UNCHANGED <<rows, dbNow, appNow, record, now, tx, result, others, migrateVars, envVars>>

CallDeleteExpired(p) ==
  /\ pc[p] = "idle"
  /\ in_use < max_size
  /\ in_use' = in_use + 1
  /\ op' = [op EXCEPT ![p] = "delete_expired"]
  /\ pc' = [pc EXCEPT ![p] = "delete_expired"]
  /\ UNCHANGED <<rows, dbNow, appNow, record, session_id, now, tx, result, others, migrateVars, envVars>>

\* The caller takes the result; its frame is gone.
Return(p) ==
  /\ pc[p] = "done"
  /\ pc' = [pc EXCEPT ![p] = "idle"]
  /\ op' = [op EXCEPT ![p] = "none"]
  /\ record' = [record EXCEPT ![p] = NoRecord]
  /\ session_id' = [session_id EXCEPT ![p] = 0]
  /\ now' = [now EXCEPT ![p] = NoTimestamp]
  /\ result' = [result EXCEPT ![p] = NoResult]
  /\ UNCHANGED <<rows, dbNow, appNow, tx, in_use, others, migrateVars, envVars>>

\* self.pool.get().await.map_err(PgStoreError::from)? fails (PoolError): the operation
\* returns Backend without a connection.
PoolGetFailure(p) ==
  /\ pc[p] = "idle"
  /\ \E o \in {"create", "save", "load", "delete", "delete_expired"} :
       /\ op' = [op EXCEPT ![p] = o]
       /\ IF o \in {"create", "save"}
          THEN \E r \in Records : record' = [record EXCEPT ![p] = r]
          ELSE record' = record
       /\ IF o \in {"load", "delete"}
          THEN \E i \in Ids : session_id' = [session_id EXCEPT ![p] = i]
          ELSE session_id' = session_id
  /\ pc' = [pc EXCEPT ![p] = "done"]
  /\ result' = [result EXCEPT ![p] =
                  FromPgStoreError(PgStoreError("Pool", "pool or driver failure"))]
  /\ UNCHANGED <<rows, dbNow, appNow, now, tx, in_use, others, migrateVars, envVars>>

\* Another subsystem of the application takes a connection of the shared pool, or
\* gives one back.
OtherAcquire ==
  /\ in_use < max_size
  /\ in_use' = in_use + 1
  /\ others' = others + 1
  /\ UNCHANGED <<rows, dbNow, appNow, pc, op, record, session_id, now, tx, result,
                 migrateVars, envVars>>

OtherRelease ==
  /\ others > 0
  /\ in_use' = in_use - 1
  /\ others' = others - 1
  /\ UNCHANGED <<rows, dbNow, appNow, pc, op, record, session_id, now, tx, result,
                 migrateVars, envVars>>

\* ------------------------------------------------------------------ steps
\* A pool or driver failure (PgStoreError::Pool / Postgres) at a step that talks to the
\* pool or the backend, or an expiry that timestamp_from_offset cannot convert
\* (PgStoreError::Generic): map_err(PgStoreError::from)? returns it.
BackendFailure(p) ==
  /\ pc[p] \in {"id_exists", "save_with_conn", "commit", "query", "delete", "delete_expired"}
  /\ \E variant \in {"Postgres", "Pool", "Generic"} :
       Finish(p, FromPgStoreError(PgStoreError(variant, "pool or driver failure")))
  /\ UNCHANGED <<rows, dbNow, appNow, op, record, session_id, now, others, migrateVars, envVars>>

\* (mutant) the store retries the request whose reply was lost instead of returning.
ReplyLostRetried(p) ==
  /\ pc[p] \in {"commit", "save_with_conn", "delete", "delete_expired"}
  /\ pc[p] = "save_with_conn" => (op[p] = "save" /\ ~Locked(p, IdToString(record[p].id)))
  /\ pc[p] = "delete" =>
       ~(Locked(p, IdToString(session_id[p])) /\ id_exists_query(rows, IdToString(session_id[p])))
  /\ pc[p] = "delete_expired" => \A r \in rows \ DeleteExpiredStmt(rows, dbNow) : ~Locked(p, r.id)
  /\ rows' = CASE pc[p] = "commit" ->
                   UpsertStmt(rows, tx[p].id, tx[p].data, tx[p].expiry_date)
              [] pc[p] = "save_with_conn" ->
                   UpsertStmt(rows, IdToString(record[p].id), to_vec(record[p]),
                              Instant(timestamp_from_offset(record[p].expiry_date)))
              [] pc[p] = "delete" -> DeleteStmt(rows, IdToString(session_id[p]))
              [] pc[p] = "delete_expired" -> DeleteExpiredStmt(rows, dbNow)
  /\ UNCHANGED <<pc, result, tx, in_use>>
  /\ UNCHANGED <<dbNow, appNow, op, record, session_id, now, others, migrateVars, envVars>>

\* The connection fails after the backend has carried out the request and before its
\* reply arrives: the driver returns an error (PgStoreError::Postgres) for a commit
\* (create) or a statement (save, delete, delete_expired) that has taken effect.
ReplyLost(p) ==
  /\ pc[p] \in {"commit", "save_with_conn", "delete", "delete_expired"}
  /\ pc[p] = "save_with_conn" => (op[p] = "save" /\ ~Locked(p, IdToString(record[p].id)))
  /\ pc[p] = "delete" =>
       ~(Locked(p, IdToString(session_id[p])) /\ id_exists_query(rows, IdToString(session_id[p])))
  /\ pc[p] = "delete_expired" => \A r \in rows \ DeleteExpiredStmt(rows, dbNow) : ~Locked(p, r.id)
  /\ rows' = CASE pc[p] = "commit" ->
                   UpsertStmt(rows, tx[p].id, tx[p].data, tx[p].expiry_date)
              [] pc[p] = "save_with_conn" ->
                   UpsertStmt(rows, IdToString(record[p].id), to_vec(record[p]),
                              Instant(timestamp_from_offset(record[p].expiry_date)))
              [] pc[p] = "delete" -> DeleteStmt(rows, IdToString(session_id[p]))
              [] pc[p] = "delete_expired" -> DeleteExpiredStmt(rows, dbNow)
  /\ Finish(p, FromPgStoreError(PgStoreError("Postgres", "pool or driver failure")))
  /\ UNCHANGED <<dbNow, appNow, op, record, session_id, now, others, migrateVars, envVars>>

\* save_with_conn: rmp_serde::to_vec(record) fails, PgStoreError::Encode.
EncodeFailure(p) ==
  /\ pc[p] = "save_with_conn"
  /\ Finish(p, FromPgStoreError(PgStoreError("Encode", "encode failure")))
  /\ UNCHANGED <<rows, dbNow, appNow, op, record, session_id, now, others, migrateVars, envVars>>

\* (mutant) create gives up at a collision instead of generating another id.
IdExistsGivingUp(p) ==
  /\ pc[p] = "id_exists"
  /\ IF id_exists_query(rows, IdToString(record[p].id))
     THEN /\ Finish(p, Err("Backend", "too many id collisions"))
          /\ record' = record
     ELSE /\ pc' = [pc EXCEPT ![p] = "save_with_conn"]
          /\ UNCHANGED <<record, result, tx, in_use>>
  /\ UNCHANGED <<rows, dbNow, appNow, op, session_id, now, others, migrateVars, envVars>>

\* (mutant) the existence check counts live rows only.
IdExistsLiveOnly(p) ==
  /\ pc[p] = "id_exists"
  /\ IF \E r \in rows : r.id = IdToString(record[p].id) /\ r.expiry_date > dbNow
     THEN /\ \E fresh \in Ids : record' = [record EXCEPT ![p].id = fresh]
          /\ pc' = pc
     ELSE /\ pc' = [pc EXCEPT ![p] = "save_with_conn"]
          /\ record' = record
  /\ UNCHANGED <<rows, dbNow, appNow, op, session_id, now, tx, result, in_use, others, migrateVars, envVars>>

\* create: while self.id_exists(&tx, &record.id).await? { record.id = Id::default(); }
IdExists(p) ==
  /\ pc[p] = "id_exists"
  /\ IF id_exists_query(rows, IdToString(record[p].id))
     THEN /\ \E fresh \in Ids : record' = [record EXCEPT ![p].id = fresh]
          /\ pc' = pc
     ELSE /\ pc' = [pc EXCEPT ![p] = "save_with_conn"]
          /\ record' = record
  /\ UNCHANGED <<rows, dbNow, appNow, op, session_id, now, tx, result, in_use, others, migrateVars, envVars>>

\* The row save_with_conn binds to its statement: ($1, $2, $3).
BoundRow(r) ==
  [id |-> IdToString(r.id), data |-> to_vec(r),
   expiry_date |-> Instant(timestamp_from_offset(r.expiry_date))]

\* (mutant) create runs its insert on the client, outside its transaction.
SaveWithConnOutsideTransaction(p) ==
  /\ pc[p] = "save_with_conn"
  /\ LET row == BoundRow(record[p])
     IN /\ ~Locked(p, row.id)
        /\ rows' = UpsertStmt(rows, row.id, row.data, row.expiry_date)
        /\ IF op[p] = "create"
           THEN /\ tx' = [tx EXCEPT ![p] = row]
                /\ pc' = [pc EXCEPT ![p] = "commit"]
                /\ UNCHANGED <<result, in_use>>
           ELSE Finish(p, Ok)
  /\ UNCHANGED <<dbNow, appNow, op, record, session_id, now, others, migrateVars, envVars>>

\* (mutant) the insert takes a second connection from the pool while the operation
\* holds its first.
SaveWithConnOnSecondConnection(p) ==
  /\ pc[p] = "save_with_conn"
  /\ in_use < max_size
  /\ LET row == BoundRow(record[p])
     IN /\ ~Locked(p, row.id)
        /\ IF op[p] = "create"
           THEN /\ tx' = [tx EXCEPT ![p] = row]
                /\ pc' = [pc EXCEPT ![p] = "commit"]
                /\ UNCHANGED <<rows, result, in_use>>
           ELSE /\ rows' = UpsertStmt(rows, row.id, row.data, row.expiry_date)
                /\ Finish(p, Ok)
  /\ UNCHANGED <<dbNow, appNow, op, record, session_id, now, others, migrateVars, envVars>>

\* save_with_conn, inside the transaction of create or on the plain connection of
\* save; the statement waits while another transaction holds the key.
SaveWithConn(p) ==
  /\ pc[p] = "save_with_conn"
  /\ LET row == BoundRow(record[p])
     IN /\ ~Locked(p, row.id)
        /\ IF op[p] = "create"
           THEN /\ tx' = [tx EXCEPT ![p] = row]
                /\ pc' = [pc EXCEPT ![p] = "commit"]
                /\ UNCHANGED <<rows, result, in_use>>
           ELSE /\ rows' = UpsertStmt(rows, row.id, row.data, row.expiry_date)
                /\ Finish(p, Ok)
  /\ UNCHANGED <<dbNow, appNow, op, record, session_id, now, others, migrateVars, envVars>>

\* create: tx.commit().await, the transaction's write becomes visible.
Commit(p) ==
  /\ pc[p] = "commit"
  /\ rows' = UpsertStmt(rows, tx[p].id, tx[p].data, tx[p].expiry_date)
  /\ Finish(p, Ok)
  /\ UNCHANGED <<dbNow, appNow, op, record, session_id, now, others, migrateVars, envVars>>

\* load: let now = timestamp_from_offset(OffsetDateTime::now_utc())
LoadNow(p) ==
  /\ pc[p] = "now"
  /\ now' = [now EXCEPT ![p] = timestamp_from_offset(appNow)]
  /\ pc' = [pc EXCEPT ![p] = "query"]
  /\ UNCHANGED <<rows, dbNow, appNow, op, record, session_id, tx, result, in_use, others, migrateVars, envVars>>

\* (mutant) a row that does not decode is reported as no session.
LoadResultIgnoringCorrupt(found) ==
  IF found = {} THEN OkNone
  ELSE IF Cardinality(found) > 1
       THEN FromPgStoreError(PgStoreError("Postgres", "query returned an unexpected number of rows"))
  ELSE LET row == CHOOSE r \in found : TRUE
       IN IF Decodable(row.data) THEN OkSome(from_slice(row.data)) ELSE OkNone

\* load: query_opt, then rmp_serde::from_slice on the row found.
LoadResult(found) ==
  IF found = {} THEN OkNone
  ELSE IF Cardinality(found) > 1
       THEN FromPgStoreError(PgStoreError("Postgres", "query returned an unexpected number of rows"))
  ELSE LET row == CHOOSE r \in found : TRUE
       IN IF Decodable(row.data) THEN OkSome(from_slice(row.data))
          ELSE FromPgStoreError(PgStoreError("Decode", "decode failure"))

\* (mutant) a load that finds the row expired removes it.
LoadQueryEvicting(p) ==
  /\ pc[p] = "query"
  /\ LET id == IdToString(session_id[p])
         found == LoadQuery(rows, id, Instant(now[p]))
     IN /\ Finish(p, LoadResult(found))
        /\ rows' = IF found = {} THEN DeleteStmt(rows, id) ELSE rows
  /\ UNCHANGED <<dbNow, appNow, op, record, session_id, now, others, migrateVars, envVars>>

LoadQueryStep(p) ==
  /\ pc[p] = "query"
  /\ Finish(p, LoadResult(LoadQuery(rows, IdToString(session_id[p]), Instant(now[p]))))
  /\ UNCHANGED <<rows, dbNow, appNow, op, record, session_id, now, others, migrateVars, envVars>>

\* (mutant) a delete that affected no row is an error.
DeleteResultStrict(affected) ==
  IF affected = 0 THEN Err("Backend", "query returned an unexpected number of rows") ELSE Ok

\* delete: client.execute(..).await.map_err(..)?; Ok(()) -- the number of rows the
\* statement affected is dropped.
DeleteResult(affected) == Ok

\* delete: the statement waits while the row it matches is locked.
Delete(p) ==
  /\ pc[p] = "delete"
  /\ LET id == IdToString(session_id[p])
     IN /\ ~(Locked(p, id) /\ id_exists_query(rows, id))
        /\ rows' = DeleteStmt(rows, id)
        /\ Finish(p, DeleteResult(Cardinality(rows \ DeleteStmt(rows, id))))
  /\ UNCHANGED <<dbNow, appNow, op, record, session_id, now, others, migrateVars, envVars>>

\* delete_expired: one statement, now() is the backend's clock; it waits while a
\* row it matches is locked.
DeleteExpired(p) ==
  /\ pc[p] = "delete_expired"
  /\ \A r \in rows \ DeleteExpiredStmt(rows, dbNow) : ~Locked(p, r.id)
  /\ rows' = DeleteExpiredStmt(rows, dbNow)
  /\ Finish(p, Ok)
  /\ UNCHANGED <<dbNow, appNow, op, record, session_id, now, others, migrateVars, envVars>>

\* ------------------------------------------------------------------ clocks
TickDb ==
  /\ dbNow < MaxTime
  /\ dbNow' = dbNow + 1
  /\ UNCHANGED <<rows, appNow, pc, op, record, session_id, now, tx, result, in_use, others, migrateVars, envVars>>

TickApp ==
  /\ appNow < MaxTime
  /\ appNow' = appNow + 1
  /\ UNCHANGED <<rows, dbNow, pc, op, record, session_id, now, tx, result, in_use, others, migrateVars, envVars>>

Next ==
  \/ \E p \in Procs : CallCreate(p)
  \/ \E p \in Procs : CallSave(p)
  \/ \E p \in Procs : CallLoad(p)
  \/ \E p \in Procs : CallDelete(p)
  \/ \E p \in Procs : CallDeleteExpired(p)
  \/ \E p \in Procs : Return(p)
  \/ \E p \in Procs : PoolGetFailure(p)
  \/ \E p \in Procs : BackendFailure(p)
  \/ \E p \in Procs : ReplyLost(p)
  \/ \E p \in Procs : EncodeFailure(p)
  \/ \E p \in Procs : IdExists(p)
  \/ \E p \in Procs : SaveWithConn(p)
  \/ \E p \in Procs : Commit(p)
  \/ \E p \in Procs : LoadNow(p)
  \/ \E p \in Procs : LoadQueryStep(p)
  \/ \E p \in Procs : Delete(p)
  \/ \E p \in Procs : DeleteExpired(p)
  \/ TickDb
  \/ TickApp

Spec == Init /\ [][Next]_vars

\* The store's operations on a pool that other subsystems use as well; the clocks
\* stand still.
NextPool ==
  \/ \E p \in Procs : CallCreate(p)
  \/ \E p \in Procs : CallSave(p)
  \/ \E p \in Procs : CallLoad(p)
  \/ \E p \in Procs : CallDelete(p)
  \/ \E p \in Procs : CallDeleteExpired(p)
  \/ \E p \in Procs : Return(p)
  \/ \E p \in Procs : PoolGetFailure(p)
  \/ \E p \in Procs : BackendFailure(p)
  \/ \E p \in Procs : ReplyLost(p)
  \/ \E p \in Procs : EncodeFailure(p)
  \/ \E p \in Procs : IdExists(p)
  \/ \E p \in Procs : SaveWithConn(p)
  \/ \E p \in Procs : Commit(p)
  \/ \E p \in Procs : LoadNow(p)
  \/ \E p \in Procs : LoadQueryStep(p)
  \/ \E p \in Procs : Delete(p)
  \/ \E p \in Procs : DeleteExpired(p)
  \/ OtherAcquire
  \/ OtherRelease

SpecPool == Init /\ [][NextPool]_vars

\* create: self.pool.get().await fails.
CreatePoolGetFailure(p) ==
  /\ PoolGetFailure(p)
  /\ op'[p] = "create"

\* A caller has called an operation of the store and stands at self.pool.get().await,
\* where it waits while the pool has no connection to give.
Start(p) ==
  /\ pc[p] = "idle"
  /\ op[p] = "none"
  /\ op' = [op EXCEPT ![p] = "started"]
  /\ UNCHANGED <<rows, dbNow, appNow, pc, record, session_id, now, tx, result, in_use,
                 others, migrateVars, envVars>>

\* pool.get() gives the waiting caller a connection and its operation begins.
Get(p) ==
  /\ op[p] = "started"
  /\ \/ CallCreate(p)
     \/ CallSave(p)
     \/ CallLoad(p)
     \/ CallDelete(p)
     \/ CallDeleteExpired(p)

\* Return of an operation that was started at pool.get().
ReturnStarted(p) ==
  /\ op[p] # "started"
  /\ Return(p)

\* More operations than the pool has connections: the callers followed here next to
\* others that hold all connections of the pool but one, so that the callers compete
\* for the last one; the backend answers every statement and its clock stands still.
InitPoolBusy ==
  /\ rows \in {{}, {ForeignRow}}
  /\ dbNow = 1
  /\ appNow = dbNow
  /\ pc = [p \in Procs |-> "idle"]
  /\ op = [p \in Procs |-> "none"]
  /\ record = [p \in Procs |-> NoRecord]
  /\ session_id = [p \in Procs |-> 0]
  /\ now = [p \in Procs |-> NoTimestamp]
  /\ tx = [p \in Procs |-> NoRow]
  /\ result = [p \in Procs |-> NoResult]
  /\ others = max_size - 1
  /\ in_use = others
  /\ pg_namespace = {[nspname |-> schema_name, by |-> 0]}
  /\ pg_class = {[nspname |-> schema_name, relname |-> table_name, by |-> 0]}
  /\ mpc = [s \in Stores |-> "idle"]
  /\ mtx = [s \in Stores |-> NoTx]
  /\ mresult = [s \in Stores |-> NoResult]
  /\ EnvInit

NextPoolBusy ==
  \/ \E p \in Procs : Start(p)
  \/ \E p \in Procs : Get(p)
  \/ \E p \in Procs : ReturnStarted(p)
  \/ \E p \in Procs : IdExists(p)
  \/ \E p \in Procs : SaveWithConn(p)
  \/ \E p \in Procs : Commit(p)
  \/ \E p \in Procs : LoadNow(p)
  \/ \E p \in Procs : LoadQueryStep(p)
  \/ \E p \in Procs : Delete(p)
  \/ \E p \in Procs : DeleteExpired(p)

SpecPoolBusy == InitPoolBusy /\ [][NextPoolBusy]_vars
\* The pool serves its waiters in the order of their arrival and the backend grants a
\* row lock in the order of the requests, so a caller that can go on again and again
\* does go on; a statement that waits for nothing is answered.
SpecPoolBusyFair ==
  /\ SpecPoolBusy
  /\ \A p \in Procs :
       /\ SF_vars(Get(p))
       /\ WF_vars(IdExists(p))
       /\ SF_vars(SaveWithConn(p))
       /\ WF_vars(Commit(p))
       /\ WF_vars(LoadNow(p))
       /\ WF_vars(LoadQueryStep(p))
       /\ SF_vars(Delete(p))
       /\ SF_vars(DeleteExpired(p))

\* N concurrent create calls and nothing else: every caller calls create once.
NextCreates ==
  \/ \E p \in Procs : CallCreate(p)
  \/ \E p \in Procs : CreatePoolGetFailure(p)
  \/ \E p \in Procs : BackendFailure(p)
  \/ \E p \in Procs : ReplyLost(p)
  \/ \E p \in Procs : EncodeFailure(p)
  \/ \E p \in Procs : IdExists(p)
  \/ \E p \in Procs : SaveWithConn(p)
  \/ \E p \in Procs : Commit(p)

SpecCreates == Init /\ [][NextCreates]_vars

\* Writers (create, save) and readers (load) of the same table; nothing is deleted and
\* the clocks stand still.
NextReadWrite ==
  \/ \E p \in Procs : CallCreate(p)
  \/ \E p \in Procs : CallSave(p)
  \/ \E p \in Procs : CallLoad(p)
  \/ \E p \in Procs : Return(p)
  \/ \E p \in Procs : BackendFailure(p)
  \/ \E p \in Procs : ReplyLost(p)
  \/ \E p \in Procs : IdExists(p)
  \/ \E p \in Procs : SaveWithConn(p)
  \/ \E p \in Procs : Commit(p)
  \/ \E p \in Procs : LoadNow(p)
  \/ \E p \in Procs : LoadQueryStep(p)

SpecReadWrite == Init /\ [][NextReadWrite]_vars

\* A session an earlier create has stored: its payload is none of the payloads the
\* calls below pass, so its row can be told from every row they write.
ExistingId == 1
ExistingPayload == 0
ExistingRecord(expiry) == [id |-> ExistingId, data |-> ExistingPayload, expiry_date |-> expiry]

\* The row of that session as the table holds it.
ExistingRow(expiry) ==
  [id |-> <<"id", ExistingId>>, data |-> <<ExistingId, ExistingPayload, expiry>>,
   expiry_date |-> expiry]

\* create(&self, record), the caller's record.id being the id of a row of the table.
CallCreateExisting(p) ==
  /\ CallCreate(p)
  /\ id_exists_query(rows, IdToString(record'[p].id))

\* The table holds one session, expired, expiring now or live.
InitCreateExisting ==
  /\ \E expiry \in Times : rows = {ExistingRow(expiry)}
  /\ dbNow \in Times
  /\ appNow = dbNow
  /\ pc = [p \in Procs |-> "idle"]
  /\ op = [p \in Procs |-> "none"]
  /\ record = [p \in Procs |-> NoRecord]
  /\ session_id = [p \in Procs |-> 0]
  /\ now = [p \in Procs |-> NoTimestamp]
  /\ tx = [p \in Procs |-> NoRow]
  /\ result = [p \in Procs |-> NoResult]
  /\ in_use = 0
  /\ others = 0
  /\ pg_namespace = {[nspname |-> schema_name, by |-> 0]}
  /\ pg_class = {[nspname |-> schema_name, relname |-> table_name, by |-> 0]}
  /\ mpc = [s \in Stores |-> "idle"]
  /\ mtx = [s \in Stores |-> NoTx]
  /\ mresult = [s \in Stores |-> NoResult]
  /\ EnvInit

NextCreateExisting ==
  \/ \E p \in Procs : CallCreateExisting(p)
  \/ \E p \in Procs : BackendFailure(p)
  \/ \E p \in Procs : ReplyLost(p)
  \/ \E p \in Procs : EncodeFailure(p)
  \/ \E p \in Procs : IdExists(p)
  \/ \E p \in Procs : SaveWithConn(p)
  \/ \E p \in Procs : Commit(p)
  \/ \E p \in Procs : Return(p)

SpecCreateExisting == InitCreateExisting /\ [][NextCreateExisting]_vars
\* Creates called with an id that has a row, and saves, on the table that holds one
\* session.
NextWriteExisting ==
  \/ NextCreateExisting
  \/ \E p \in Procs : CallSave(p)

SpecWriteExisting == InitCreateExisting /\ [][NextWriteExisting]_vars

\* The backend answers every existence check, so the loop of create goes on.
SpecCreateExistingFair ==
  /\ SpecCreateExisting
  /\ \A p \in Procs : WF_vars(IdExists(p))

\* ------------------------------------------------------------------ migrate
\* PgStoreError::Postgres(err), err.code() being the SQLSTATE.
SqlError(code) == [t |-> "Err", kind |-> "Postgres", code |-> code]

\* A pool or connection failure of migrate (PgStoreError::Pool / Postgres without a
\* SQLSTATE).
MigrateFailureError == [t |-> "Err", kind |-> "Postgres", code |-> "connection failure"]

SchemaCommitted == \E n \in pg_namespace : n.nspname = schema_name
TableCommitted ==
  \E c \in pg_class : c.nspname = schema_name /\ c.relname = table_name

\* Another transaction in progress has created the schema (the table) and holds its
\* key in the catalog's unique index.
SchemaHeld(s) == \E o \in Stores \ {s} : mtx[o].schema
TableHeld(s) == \E o \in Stores \ {s} : mtx[o].table

\* migrate returns r; a transaction that was not committed is rolled back on drop.
MigrateFinish(s, r) ==
  /\ mpc' = [mpc EXCEPT ![s] = "done"]
  /\ mresult' = [mresult EXCEPT ![s] = r]
  /\ mtx' = [mtx EXCEPT ![s] = NoTx]

\* migrate: self.pool.get().await?; client.transaction().await?
CallMigrate(s) ==
  /\ mpc[s] = "idle"
  /\ mpc' = [mpc EXCEPT ![s] = "create_schema"]
  /\ UNCHANGED <<pg_namespace, pg_class, mtx, mresult, storeVars, envVars>>

MigrateReturn(s) ==
  /\ mpc[s] = "done"
  /\ mpc' = [mpc EXCEPT ![s] = "idle"]
  /\ mresult' = [mresult EXCEPT ![s] = NoResult]
  /\ UNCHANGED <<pg_namespace, pg_class, mtx, storeVars, envVars>>

\* A pool, connection or commit failure: `?` returns it at once.
MigrateFailure(s) ==
  /\ mpc[s] \in {"create_schema", "schema_insert", "create_table", "table_insert", "commit"}
  /\ MigrateFinish(s, MigrateFailureError)
  /\ UNCHANGED <<pg_namespace, pg_class, storeVars, envVars>>

\* create schema if not exists: a schema the statement sees is skipped with a notice.
CreateSchemaIfNotExists(s) ==
  /\ mpc[s] = "create_schema"
  /\ mpc' = [mpc EXCEPT ![s] =
               IF SchemaCommitted \/ mtx[s].schema THEN "create_table" ELSE "schema_insert"]
  /\ UNCHANGED <<pg_namespace, pg_class, mtx, mresult, storeVars, envVars>>

\* if let Err(err) = tx.batch_execute(&create_schema_query).await: a duplicate
\* (DUPLICATE_SCHEMA or UNIQUE_VIOLATION) is passed over, the code goes on to the table.
DuplicateSchema(code) == code \in {"duplicate_schema", "unique_violation"}

\* (mutant) create schema runs on the client, outside the transaction.
CreateSchemaInsertOutsideTransaction(s) ==
  /\ mpc[s] = "schema_insert"
  /\ ~SchemaHeld(s)
  /\ IF SchemaCommitted
     THEN /\ \E code \in {"duplicate_schema", "unique_violation"} :
               IF DuplicateSchema(code)
               THEN /\ mtx' = [mtx EXCEPT ![s].aborted = TRUE]
                    /\ mpc' = [mpc EXCEPT ![s] = "create_table"]
                    /\ mresult' = mresult
               ELSE MigrateFinish(s, SqlError(code))
          /\ UNCHANGED pg_namespace
     ELSE /\ pg_namespace' = pg_namespace \cup {[nspname |-> schema_name, by |-> s]}
          /\ mpc' = [mpc EXCEPT ![s] = "create_table"]
          /\ UNCHANGED <<mtx, mresult>>
  /\ UNCHANGED <<pg_class, storeVars, envVars>>

\* create schema, the insert into the catalog: it waits while another transaction
\* holds the name; a schema committed meanwhile is a duplicate, and the error leaves
\* the transaction aborted.
CreateSchemaInsert(s) ==
  /\ mpc[s] = "schema_insert"
  /\ ~SchemaHeld(s)
  /\ IF SchemaCommitted
     THEN \E code \in {"duplicate_schema", "unique_violation"} :
            IF DuplicateSchema(code)
            THEN /\ mtx' = [mtx EXCEPT ![s].aborted = TRUE]
                 /\ mpc' = [mpc EXCEPT ![s] = "create_table"]
                 /\ mresult' = mresult
            ELSE MigrateFinish(s, SqlError(code))
     ELSE /\ mtx' = [mtx EXCEPT ![s].schema = TRUE]
          /\ mpc' = [mpc EXCEPT ![s] = "create_table"]
          /\ mresult' = mresult
  /\ UNCHANGED <<pg_namespace, pg_class, storeVars, envVars>>

\* create table if not exists, tx.batch_execute(&create_table_query).await?: in an
\* aborted transaction every statement fails; a table the statement sees is skipped.
CreateTableIfNotExists(s) ==
  /\ mpc[s] = "create_table"
  /\ IF mtx[s].aborted
     THEN MigrateFinish(s, SqlError("in_failed_sql_transaction"))
     ELSE /\ mpc' = [mpc EXCEPT ![s] =
                      IF TableCommitted \/ mtx[s].table THEN "commit" ELSE "table_insert"]
          /\ UNCHANGED <<mtx, mresult>>
  /\ UNCHANGED <<pg_namespace, pg_class, storeVars, envVars>>

\* create table, the insert into the catalog: it waits while another transaction
\* holds the name; a table committed meanwhile is a duplicate.
CreateTableInsert(s) ==
  /\ mpc[s] = "table_insert"
  /\ ~TableHeld(s)
  /\ IF TableCommitted
     THEN \E code \in {"duplicate_table", "unique_violation"} :
            MigrateFinish(s, SqlError(code))
     ELSE /\ mtx' = [mtx EXCEPT ![s].table = TRUE]
          /\ mpc' = [mpc EXCEPT ![s] = "commit"]
          /\ mresult' = mresult
  /\ UNCHANGED <<pg_namespace, pg_class, storeVars, envVars>>

\* tx.commit().await?; Ok(())
MigrateCommit(s) ==
  /\ mpc[s] = "commit"
  /\ pg_namespace' = pg_namespace \cup
       (IF mtx[s].schema THEN {[nspname |-> schema_name, by |-> s]} ELSE {})
  /\ pg_class' = pg_class \cup
       (IF mtx[s].table
        THEN {[nspname |-> schema_name, relname |-> table_name, by |-> s]} ELSE {})
  /\ MigrateFinish(s, Ok)
  /\ UNCHANGED <<storeVars, envVars>>

\* tx.commit().await?: the connection fails after the backend has committed and
\* before the reply arrives; migrate returns the error of a commit that took effect.
MigrateReplyLost(s) ==
  /\ mpc[s] = "commit"
  /\ pg_namespace' = pg_namespace \cup
       (IF mtx[s].schema THEN {[nspname |-> schema_name, by |-> s]} ELSE {})
  /\ pg_class' = pg_class \cup
       (IF mtx[s].table
        THEN {[nspname |-> schema_name, relname |-> table_name, by |-> s]} ELSE {})
  /\ MigrateFinish(s, MigrateFailureError)
  /\ UNCHANGED <<storeVars, envVars>>

\* A database that holds neither the table nor, in one case, the schema.
InitMigrate ==
  /\ rows = {}
  /\ dbNow = 0
  /\ appNow = 0
  /\ pc = [p \in Procs |-> "idle"]
  /\ op = [p \in Procs |-> "none"]
  /\ record = [p \in Procs |-> NoRecord]
  /\ session_id = [p \in Procs |-> 0]
  /\ now = [p \in Procs |-> NoTimestamp]
  /\ tx = [p \in Procs |-> NoRow]
  /\ result = [p \in Procs |-> NoResult]
  /\ in_use = 0
  /\ others = 0
  /\ pg_namespace \in {{}, {[nspname |-> schema_name, by |-> 0]}}
  /\ pg_class = {}
  /\ mpc = [s \in Stores |-> "idle"]
  /\ mtx = [s \in Stores |-> NoTx]
  /\ mresult = [s \in Stores |-> NoResult]
  /\ EnvInit

NextMigrate ==
  \/ \E s \in Stores : CallMigrate(s)
  \/ \E s \in Stores : MigrateReturn(s)
  \/ \E s \in Stores : MigrateFailure(s)
  \/ \E s \in Stores : CreateSchemaIfNotExists(s)
  \/ \E s \in Stores : CreateSchemaInsert(s)
  \/ \E s \in Stores : CreateTableIfNotExists(s)
  \/ \E s \in Stores : CreateTableInsert(s)
  \/ \E s \in Stores : MigrateCommit(s)
  \/ \E s \in Stores : MigrateReplyLost(s)

SpecMigrate == InitMigrate /\ [][NextMigrate]_vars

\* ------------------------------------------------------------------ names
Letters ==
  {"a", "b", "c", "d", "e", "f", "g", "h", "i", "j", "k", "l", "m",
   "n", "o", "p", "q", "r", "s", "t", "u", "v", "w", "x", "y", "z",
   "A", "B", "C", "D", "E", "F", "G", "H", "I", "J", "K", "L", "M",
   "N", "O", "P", "Q", "R", "S", "T", "U", "V", "W", "X", "Y", "Z"}
Digits == {"0", "1", "2", "3", "4", "5", "6", "7", "8", "9"}

\* char::is_alphabetic, char::is_numeric, char::is_alphanumeric on the characters of
\* the model (ASCII letters and digits stand for the alphabetic and numeric characters).
is_alphabetic(c) == c \in Letters
is_numeric(c) == c \in Digits
is_alphanumeric(c) == is_alphabetic(c) \/ is_numeric(c)

\* (mutant) the first character is not looked at.
is_valid_identifier_any_start(name) ==
  /\ Len(name) # 0
  /\ \A i \in 1..Len(name) : is_alphanumeric(name[i]) \/ name[i] = "_" \/ name[i] = "$"

\* !name.is_empty() && name.chars().next().map(..).unwrap_or_default()
\*   && name.chars().all(..)
is_valid_identifier(name) ==
  /\ Len(name) # 0
  /\ IF Len(name) = 0 THEN FALSE ELSE is_alphabetic(Head(name)) \/ Head(name) = "_"
  /\ \A i \in 1..Len(name) : is_alphanumeric(name[i]) \/ name[i] = "_" \/ name[i] = "$"

\* The characters the names given to the setters are made of.
NameChars == {"a", "Z", "7", "_", "$", "\"", ".", " "}
Names == UNION {[1..n -> NameChars] : n \in 0..MaxLen}

\* No store: `self` was moved into a call that returned Err.
NoStore == [pool |-> "", schema_name |-> <<>>, table_name |-> <<>>]

\* Result<Self, String>
OkStore(store) == [t |-> "Ok", value |-> store]
ErrString(what, name) == [t |-> "Err", message |-> <<"Invalid", what, "name", name>>]

\* (mutant) the store is built anew on the pool and given the schema name.
with_schema_name_rebuilding(self, name) ==
  IF ~is_valid_identifier(name)
  THEN ErrString("schema", name)
  ELSE OkStore([new(self.pool) EXCEPT !.schema_name = name])

with_schema_name(self, name) ==
  IF ~is_valid_identifier(name)
  THEN ErrString("schema", name)
  ELSE OkStore([self EXCEPT !.schema_name = name])

\* (mutant) the table name is taken as given.
with_table_name_unchecked(self, name) == OkStore([self EXCEPT !.table_name = name])

with_table_name(self, name) ==
  IF ~is_valid_identifier(name)
  THEN ErrString("table", name)
  ELSE OkStore([self EXCEPT !.table_name = name])

\* format!(r#".. "{schema_name}"."{table_name}" .."#): the qualified table name in
\* the SQL text of every operation.
QualifiedName(store) ==
  <<"\"">> \o store.schema_name \o <<"\"", ".", "\"">> \o store.table_name \o <<"\"">>

\* store.with_schema_name(name): the call takes the store by value.
WithSchemaName ==
  /\ bstore # NoStore
  /\ bresult' = with_schema_name(bstore, bname)
  /\ bstore' = IF bresult'.t = "Ok" THEN bresult'.value ELSE NoStore
  /\ UNCHANGED <<bname, storeVars, migrateVars, serverVars, configVars>>

WithTableName ==
  /\ bstore # NoStore
  /\ bresult' = with_table_name(bstore, bname)
  /\ bstore' = IF bresult'.t = "Ok" THEN bresult'.value ELSE NoStore
  /\ UNCHANGED <<bname, storeVars, migrateVars, serverVars, configVars>>

\* A store just built with PostgresStore::new on a pool, and a name of up to MaxLen
\* characters.
InitNames ==
  /\ rows = {}
  /\ dbNow = 0
  /\ appNow = 0
  /\ pc = [p \in Procs |-> "idle"]
  /\ op = [p \in Procs |-> "none"]
  /\ record = [p \in Procs |-> NoRecord]
  /\ session_id = [p \in Procs |-> 0]
  /\ now = [p \in Procs |-> NoTimestamp]
  /\ tx = [p \in Procs |-> NoRow]
  /\ result = [p \in Procs |-> NoResult]
  /\ in_use = 0
  /\ others = 0
  /\ pg_namespace = {}
  /\ pg_class = {}
  /\ mpc = [s \in Stores |-> "idle"]
  /\ mtx = [s \in Stores |-> NoTx]
  /\ mresult = [s \in Stores |-> NoResult]
  /\ bname \in Names
  /\ bstore \in {new(pool) : pool \in Pools}
  /\ bresult = NoResult
  /\ rpc = "tls_config"
  /\ rresult = NoResult
  /\ servers = {}
  /\ task = "none"
  /\ gpc = "none"
  /\ external_token = "Some"
  /\ requested = FALSE
  /\ connections = 0
  /\ tls_enabled = FALSE
  /\ tls_cert = None
  /\ tls_key = None
  /\ tls_config_result = None
  /\ cpc = "start"
  /\ setting = "http_port"
  /\ cli = None
  /\ env = None
  /\ files = [i \in DOMAIN ConfigFiles |-> None]
  /\ cfg = None

NextNames ==
  \/ WithSchemaName
  \/ WithTableName

SpecNames == InitNames /\ [][NextNames]_vars

\* ------------------------------------------------------------------ server
\* server::run: the store instance it builds, the caller that is the eviction task,
\* and the callers that are requests going through the session layer.
RunStore == 1
EvictionTask == 1
Requests == Procs \ {EvictionTask}

\* eyre::Report of run: the error of the step that failed.
RunError(what) == [t |-> "Err", report |-> what]

\* Result<(RustlsConfig, JoinHandle<()>)> of make_tls_config: the configuration is
\* known by its mode.
OkTlsConfig(mode) == [t |-> "Ok", config |-> mode]

\* (mutant) a certificate or a key given alone is ignored and ACME is used.
make_tls_config_lenient(cert, key, loaded) ==
  CASE cert # None /\ key # None ->
         IF loaded
         THEN OkTlsConfig("keypair")
         ELSE RunError("Failed to load TLS certificates")
    [] OTHER -> OkTlsConfig("acme")

\* make_tls_config(&args.server): the match on (&args.tls_cert, &args.tls_key);
\* `loaded` is whether RustlsConfig::from_pem_file could read the two files.
make_tls_config(cert, key, loaded) ==
  CASE cert = None /\ key = None -> OkTlsConfig("acme")
    [] cert # None /\ key # None ->
         IF loaded
         THEN OkTlsConfig("keypair")
         ELSE RunError("Failed to load TLS certificates")
    [] OTHER -> RunError("Both --tls-cert and --tls-key must be provided together")

\* The errors make_tls_config returns.
TlsConfigErrors ==
  {RunError("Failed to load TLS certificates"),
   RunError("Both --tls-cert and --tls-key must be provided together")}

\* The first step of run:
\*   let tls_config_result = if tls_enabled { Some(make_tls_config(..).await?) } else { None };
RunTlsConfig ==
  /\ rpc = "tls_config"
  /\ \E loaded \in BOOLEAN :
       LET made == make_tls_config(tls_cert, tls_key, loaded) IN
       IF ~tls_enabled
       THEN rpc' = "app_state" /\ tls_config_result' = None /\ rresult' = rresult
       ELSE IF made.t = "Ok"
       THEN rpc' = "app_state" /\ tls_config_result' = Some(made) /\ rresult' = rresult
       ELSE rpc' = "returned" /\ tls_config_result' = tls_config_result /\ rresult' = made
  /\ UNCHANGED <<servers, task, gpc, external_token, requested, connections,
                 tls_enabled, tls_cert, tls_key,
                 builderVars, configVars, storeVars, migrateVars>>

\* Steps of run that touch neither the store nor a task: AppState::new, build_app.
RunStep ==
  /\ rpc \in {"app_state", "build_app"}
  /\ rpc' = CASE rpc = "app_state" -> "migrate"
              [] rpc = "build_app" -> "admin"
  /\ UNCHANGED <<rresult, servers, task, gpc, external_token, requested, connections,
                 tlsVars, builderVars, configVars, storeVars, migrateVars>>

\* `?` on AppState::new, build_app, start_admin_server (bind), and run_http / run_tls
\* (bind, serve): run returns the error.
RunFailure ==
  /\ rpc \in {"app_state", "build_app", "admin", "bind", "serve"}
  /\ rpc' = "returned"
  /\ rresult' = RunError(rpc)
  /\ UNCHANGED <<servers, task, gpc, external_token, requested, connections,
                 tlsVars, builderVars, configVars, storeVars, migrateVars>>

\* session_store.migrate().await
RunMigrate ==
  /\ rpc = "migrate"
  /\ CallMigrate(RunStore)

RunMigrateStep ==
  /\ rpc = "migrate"
  /\ \/ MigrateFailure(RunStore)
     \/ CreateSchemaIfNotExists(RunStore)
     \/ CreateSchemaInsert(RunStore)
     \/ CreateTableIfNotExists(RunStore)
     \/ CreateTableInsert(RunStore)
     \/ MigrateCommit(RunStore)

\* (mutant) the result of migrate is dropped.
RunMigratedUnchecked ==
  /\ rpc = "migrate"
  /\ mpc[RunStore] = "done"
  /\ rpc' = "spawn_deletion"
  /\ UNCHANGED <<rresult, servers, task, gpc, external_token, requested, connections,
                 tlsVars, builderVars, configVars, storeVars, migrateVars>>

\* session_store.migrate().await?
RunMigrated ==
  /\ rpc = "migrate"
  /\ mpc[RunStore] = "done"
  /\ IF mresult[RunStore] = Ok
     THEN rpc' = "spawn_deletion" /\ rresult' = rresult
     ELSE rpc' = "returned" /\ rresult' = RunError(mresult[RunStore])
  /\ UNCHANGED <<servers, task, gpc, external_token, requested, connections,
                 tlsVars, builderVars, configVars, storeVars, migrateVars>>

\* tokio::task::spawn(session_store.clone().continuously_delete_expired(60 s))
RunSpawnDeletion ==
  /\ rpc = "spawn_deletion"
  /\ task' = "alive"
  /\ rpc' = "build_app"
  /\ UNCHANGED <<rresult, servers, gpc, external_token, requested, connections,
                 tlsVars, builderVars, configVars, storeVars, migrateVars>>

\* start_admin_server: the monitoring listener is bound and its server spawned.
RunStartAdmin ==
  /\ rpc = "admin"
  /\ servers' = servers \cup {"admin"}
  /\ rpc' = "spawn_shutdown"
  /\ UNCHANGED <<rresult, task, gpc, external_token, requested, connections,
                 tlsVars, builderVars, configVars, storeVars, migrateVars>>

\* tokio::spawn(graceful_shutdown(handle, deletion_task.abort_handle(), token))
RunSpawnShutdown ==
  /\ rpc = "spawn_shutdown"
  /\ gpc' = "wait"
  /\ rpc' = "bind"
  /\ UNCHANGED <<rresult, servers, task, external_token, requested, connections,
                 tlsVars, builderVars, configVars, storeVars, migrateVars>>

\* run_http / run_tls: the listener is bound and the app, wrapped in the session
\* layer, is served; run_tls binds the HTTP listener too and spawns the redirect server.
RunServe ==
  /\ rpc = "bind"
  /\ servers' = servers \cup (IF tls_config_result = None THEN {"app"} ELSE {"redirect", "app"})
  /\ rpc' = "serve"
  /\ UNCHANGED <<rresult, task, gpc, external_token, requested, connections,
                 tlsVars, builderVars, configVars, storeVars, migrateVars>>

\* serve(..).await returns once the handle was told to shut down and the connections
\* have ended; run returns Ok.
RunReturn ==
  /\ rpc = "serve"
  /\ gpc \in {"drain", "done"}
  /\ connections = 0
  /\ rpc' = "returned"
  /\ rresult' = Ok
  /\ UNCHANGED <<servers, task, gpc, external_token, requested, connections,
                 tlsVars, builderVars, configVars, storeVars, migrateVars>>

\* continuously_delete_expired(period), the loop of the spawned task:
\*   loop { interval.tick().await; self.delete_expired().await?; }
\* The interval ticks and the task calls delete_expired.
EvictionTick ==
  /\ task = "alive"
  /\ CallDeleteExpired(EvictionTask)

EvictionStep ==
  /\ task = "alive"
  /\ \/ DeleteExpired(EvictionTask)
     \/ BackendFailure(EvictionTask)

\* delete_expired returned Ok: the loop goes back to interval.tick().
EvictionLoop ==
  /\ task = "alive"
  /\ result[EvictionTask] = Ok
  /\ Return(EvictionTask)

\* delete_expired returned Err: `?` returns it and the task is finished; nothing
\* awaits the JoinHandle.
EvictionExit ==
  /\ task = "alive"
  /\ pc[EvictionTask] = "done"
  /\ result[EvictionTask].t = "Err"
  /\ task' = "finished"
  /\ UNCHANGED <<rpc, rresult, servers, gpc, external_token, requested, connections,
                 tlsVars, builderVars, configVars, storeVars, migrateVars>>

\* A client connects to a server of the handle, which accepts until it is told to
\* shut down.
ConnOpen ==
  /\ servers # {}
  /\ gpc \in {"none", "wait"}
  /\ connections < MaxConn
  /\ connections' = connections + 1
  /\ UNCHANGED <<rpc, rresult, servers, task, gpc, external_token, requested,
                 tlsVars, builderVars, configVars, storeVars, migrateVars>>

\* A connection ends: closed by the client, or by the server when the grace period of
\* handle.graceful_shutdown(Some(10 s)) is over.
ConnClose ==
  /\ connections > 0
  /\ connections' = connections - 1
  /\ UNCHANGED <<rpc, rresult, servers, task, gpc, external_token, requested,
                 tlsVars, builderVars, configVars, storeVars, migrateVars>>

\* A request on a connection of the app goes through the session layer, which saves
\* the session.
RequestSave(p) ==
  /\ "app" \in servers
  /\ connections > 0
  /\ CallSave(p)

RequestStep(p) ==
  \/ SaveWithConn(p)
  \/ BackendFailure(p)
  \/ EncodeFailure(p)
  \/ Return(p)

\* Shutdown is requested: the token given to run is cancelled, or, when run was given
\* no token, Ctrl+C or SIGTERM arrives once graceful_shutdown has installed its
\* handlers (before that the signal ends the process).
RequestShutdown ==
  /\ ~requested
  /\ external_token = "None" => gpc # "none"
  /\ requested' = TRUE
  /\ UNCHANGED <<rpc, rresult, servers, task, gpc, external_token, connections,
                 tlsVars, builderVars, configVars, storeVars, migrateVars>>

\* graceful_shutdown: token.cancelled().await (or the select! on the signals), then
\* handle.graceful_shutdown(Some(10 s)).
GracefulShutdownRequested ==
  /\ gpc = "wait"
  /\ requested
  /\ gpc' = "drain"
  /\ UNCHANGED <<rpc, rresult, servers, task, external_token, requested, connections,
                 tlsVars, builderVars, configVars, storeVars, migrateVars>>

\* (mutant) the abort takes effect only when the task is not waiting for its tick.
GracefulShutdownAbortAtTick ==
  /\ gpc = "drain"
  /\ connections = 0
  /\ pc[EvictionTask] # "idle"
  /\ gpc' = "done"
  /\ task' = IF task = "alive" THEN "aborted" ELSE task
  /\ UNCHANGED <<rpc, rresult, servers, external_token, requested, connections,
                 tlsVars, builderVars, configVars, storeVars, migrateVars>>

\* (mutant) the task is aborted as soon as the handle was told to shut down, without
\* the loop on handle.connection_count().
GracefulShutdownAbortNoDrain ==
  /\ gpc = "drain"
  /\ gpc' = "done"
  /\ task' = IF task = "alive" THEN "aborted" ELSE task
  /\ UNCHANGED <<rpc, rresult, servers, external_token, requested, connections,
                 tlsVars, builderVars, configVars, storeVars, migrateVars>>

\* graceful_shutdown: the loop ends when handle.connection_count() is 0, then
\* deletion_task.abort(); a task that has finished is left as it is.
GracefulShutdownAbort ==
  /\ gpc = "drain"
  /\ connections = 0
  /\ gpc' = "done"
  /\ task' = IF task = "alive" THEN "aborted" ELSE task
  /\ UNCHANGED <<rpc, rresult, servers, external_token, requested, connections,
                 tlsVars, builderVars, configVars, storeVars, migrateVars>>

\* run is called on a database that holds neither the table nor, in one case, the
\* schema; with or without a cancellation token.
InitServer ==
  /\ rows = {}
  /\ dbNow = 0
  /\ appNow = 0
  /\ pc = [p \in Procs |-> "idle"]
  /\ op = [p \in Procs |-> "none"]
  /\ record = [p \in Procs |-> NoRecord]
  /\ session_id = [p \in Procs |-> 0]
  /\ now = [p \in Procs |-> NoTimestamp]
  /\ tx = [p \in Procs |-> NoRow]
  /\ result = [p \in Procs |-> NoResult]
  /\ in_use = 0
  /\ others = 0
  /\ pg_namespace \in {{}, {[nspname |-> schema_name, by |-> 0]}}
  /\ pg_class = {}
  /\ mpc = [s \in Stores |-> "idle"]
  /\ mtx = [s \in Stores |-> NoTx]
  /\ mresult = [s \in Stores |-> NoResult]
  /\ bname = <<>>
  /\ bstore = NewStore
  /\ bresult = NoResult
  /\ rpc = "tls_config"
  /\ rresult = NoResult
  /\ servers = {}
  /\ task = "none"
  /\ gpc = "none"
  /\ external_token \in {"Some", "None"}
  /\ requested = FALSE
  /\ connections = 0
  /\ tls_enabled = FALSE
  /\ tls_cert = None
  /\ tls_key = None
  /\ tls_config_result = None
  /\ cpc = "start"
  /\ setting = "http_port"
  /\ cli = None
  /\ env = None
  /\ files = [i \in DOMAIN ConfigFiles |-> None]
  /\ cfg = None

NextServer ==
  \/ RunTlsConfig
  \/ RunStep
  \/ RunFailure
  \/ RunMigrate
  \/ RunMigrateStep
  \/ RunMigrated
  \/ RunSpawnDeletion
  \/ RunStartAdmin
  \/ RunSpawnShutdown
  \/ RunServe
  \/ RunReturn
  \/ EvictionTick
  \/ EvictionStep
  \/ EvictionLoop
  \/ EvictionExit
  \/ ConnOpen
  \/ ConnClose
  \/ \E p \in Requests : RequestSave(p)
  \/ \E p \in Requests : RequestStep(p)
  \/ RequestShutdown
  \/ GracefulShutdownRequested
  \/ GracefulShutdownAbort
  \/ TickDb

SpecServer == InitServer /\ [][NextServer]_vars

\* The tasks of the runtime are scheduled: graceful_shutdown goes on once the request
\* is there, its loop sees the connection count, and the connections end once the
\* handle was told to shut down (at the latest when the grace period is over).  The
\* interval of the eviction task is not assumed to tick.
SpecServerFair ==
  /\ SpecServer
  /\ WF_vars(GracefulShutdownRequested)
  /\ WF_vars(GracefulShutdownAbort)
  /\ WF_vars(gpc = "drain" /\ ConnClose)

\* run with every setting of tls_enabled, tls_cert and tls_key: from make_tls_config to
\* the servers and their shutdown, without the traffic of the store.
InitRunTls ==
  /\ rows = {}
  /\ dbNow = 0
  /\ appNow = 0
  /\ pc = [p \in Procs |-> "idle"]
  /\ op = [p \in Procs |-> "none"]
  /\ record = [p \in Procs |-> NoRecord]
  /\ session_id = [p \in Procs |-> 0]
  /\ now = [p \in Procs |-> NoTimestamp]
  /\ tx = [p \in Procs |-> NoRow]
  /\ result = [p \in Procs |-> NoResult]
  /\ in_use = 0
  /\ others = 0
  /\ pg_namespace \in {{}, {[nspname |-> schema_name, by |-> 0]}}
  /\ pg_class = {}
  /\ mpc = [s \in Stores |-> "idle"]
  /\ mtx = [s \in Stores |-> NoTx]
  /\ mresult = [s \in Stores |-> NoResult]
  /\ bname = <<>>
  /\ bstore = NewStore
  /\ bresult = NoResult
  /\ rpc = "tls_config"
  /\ rresult = NoResult
  /\ servers = {}
  /\ task = "none"
  /\ gpc = "none"
  /\ external_token \in {"Some", "None"}
  /\ requested = FALSE
  /\ connections = 0
  /\ tls_enabled \in BOOLEAN
  /\ tls_cert \in {None, Some("cert.pem")}
  /\ tls_key \in {None, Some("key.pem")}
  /\ tls_config_result = None
  /\ cpc = "start"
  /\ setting = "http_port"
  /\ cli = None
  /\ env = None
  /\ files = [i \in DOMAIN ConfigFiles |-> None]
  /\ cfg = None

NextRunTls ==
  \/ RunTlsConfig
  \/ RunStep
  \/ RunFailure
  \/ RunMigrate
  \/ RunMigrateStep
  \/ RunMigrated
  \/ RunSpawnDeletion
  \/ RunStartAdmin
  \/ RunSpawnShutdown
  \/ RunServe
  \/ RunReturn
  \/ ConnOpen
  \/ ConnClose
  \/ RequestShutdown
  \/ GracefulShutdownRequested
  \/ GracefulShutdownAbort

SpecRunTls == InitRunTls /\ [][NextRunTls]_vars

\* ------------------------------------------------------------------ config
\* #[config(default = ..)] of Server
Default(field) ==
  CASE field = "http_port" -> 8080
    [] field = "https_port" -> 8443
    [] field = "monitoring_port" -> 9090
    [] field = "tls_enabled" -> FALSE

\* The first layer, in the order given, that sets the field.
RECURSIVE FirstSome(_)
FirstSome(layers) ==
  IF layers = <<>> THEN None
  ELSE IF Head(layers) # None THEN Head(layers)
  ELSE FirstSome(Tail(layers))

\* (mutant) the files are asked before the environment.
BuilderLoadFilesFirst(field, envValue, fileValues) ==
  LET found == FirstSome(fileValues \o <<envValue>>)
  IN IF found = None THEN Default(field) ELSE found[1]

\* AppConfig::builder().env().file(..).file(..).file(..).file(..).load(): a layer added
\* earlier wins over a layer added later, the defaults come last.
BuilderLoad(field, envValue, fileValues) ==
  LET found == FirstSome(<<envValue>> \o fileValues)
  IN IF found = None THEN Default(field) ELSE found[1]

\* The CLI overlay: `if let Some(v) = cli.server.<port> { cfg.server.<port> = v }`,
\* `if cli.server.tls_enabled { cfg.server.tls_enabled = true }`.
CliOverlay(field, value, cliValue) ==
  IF field = "tls_enabled"
  THEN IF cliValue THEN TRUE ELSE value
  ELSE IF cliValue # None THEN cliValue[1] ELSE value

\* let mut cfg = AppConfig::builder()...load()?
LoadConfigBuilder ==
  /\ cpc = "start"
  /\ cfg' = Some(BuilderLoad(setting, env, files))
  /\ cpc' = "overlay"
  /\ UNCHANGED <<setting, cli, env, files, builderVars, serverVars, storeVars, migrateVars>>

\* let cli = CliArgs::parse_from(args); the overlay; Ok(cfg)
LoadConfigOverlay ==
  /\ cpc = "overlay"
  /\ cfg' = Some(CliOverlay(setting, cfg[1], cli))
  /\ cpc' = "done"
  /\ UNCHANGED <<setting, cli, env, files, builderVars, serverVars, storeVars, migrateVars>>

\* The port numbers the sources give, and what a source may hold for a field: the
\* --tls-enabled flag is there or not, every other source sets the field or not.
PortValues == {18080, 28080}
ValuesOf(field) == IF field = "tls_enabled" THEN BOOLEAN ELSE PortValues
Option(values) == {None} \cup {Some(v) : v \in values}
CliValues(field) == IF field = "tls_enabled" THEN BOOLEAN ELSE Option(PortValues)

\* load_config_with_args is called with some command line, environment and files.
InitConfig ==
  /\ rows = {}
  /\ dbNow = 0
  /\ appNow = 0
  /\ pc = [p \in Procs |-> "idle"]
  /\ op = [p \in Procs |-> "none"]
  /\ record = [p \in Procs |-> NoRecord]
  /\ session_id = [p \in Procs |-> 0]
  /\ now = [p \in Procs |-> NoTimestamp]
  /\ tx = [p \in Procs |-> NoRow]
  /\ result = [p \in Procs |-> NoResult]
  /\ in_use = 0
  /\ others = 0
  /\ pg_namespace = {}
  /\ pg_class = {}
  /\ mpc = [s \in Stores |-> "idle"]
  /\ mtx = [s \in Stores |-> NoTx]
  /\ mresult = [s \in Stores |-> NoResult]
  /\ bname = <<>>
  /\ bstore = NewStore
  /\ bresult = NoResult
  /\ rpc = "tls_config"
  /\ rresult = NoResult
  /\ servers = {}
  /\ task = "none"
  /\ gpc = "none"
  /\ external_token = "Some"
  /\ requested = FALSE
  /\ connections = 0
  /\ tls_enabled = FALSE
  /\ tls_cert = None
  /\ tls_key = None
  /\ tls_config_result = None
  /\ cpc = "start"
  /\ setting \in {"http_port", "https_port", "monitoring_port", "tls_enabled"}
  /\ cli \in CliValues(setting)
  /\ env \in Option(ValuesOf(setting))
  /\ files \in [DOMAIN ConfigFiles -> Option(ValuesOf(setting))]
  /\ cfg = None

NextConfig ==
  \/ LoadConfigBuilder
  \/ LoadConfigOverlay

SpecConfig == InitConfig /\ [][NextConfig]_vars

\* ------------------------------------------------------------------ properties
\* The one failure the environment injects: the pool or the driver failed.
Failure == Err("Backend", "pool or driver failure")

Done(p, o) == pc[p] = "done" /\ op[p] = o

RowsOf(tbl, id) == {r \in tbl : r.id = IdToString(id)}

\* C1: for every interleaving of concurrent create calls, the creates that returned
\* Ok hold pairwise distinct ids, the table holds one row per successful create, and
\* the row of every successful create is the one it wrote.
C1_ConcurrentCreatesDistinct ==
  LET created == {p \in Procs : Done(p, "create") /\ result[p] = Ok}
  IN /\ \A p \in created : \A q \in created : p # q => record[p].id # record[q].id
     /\ Cardinality(rows \ {ForeignRow}) = Cardinality(created)
     /\ \A p \in created : BoundRow(record[p]) \in rows

\* C2: the write of create is a plain insert: no transaction of create ever holds a
\* write for an id that has a committed row (such a write would have been rejected by
\* the primary key rather than applied as an update of that row).
C2_CreateWriteIsPlainInsert ==
  \A p \in Procs : tx[p] # NoRow => ~id_exists_query(rows, tx[p].id)

\* C3: in every reachable state the table holds at most one row per id, expired rows
\* that have not been evicted included.
C3_AtMostOneRowPerId ==
  \A r1 \in rows : \A r2 \in rows : r1.id = r2.id => r1 = r2

\* C3 witness: a save has returned Ok for an id whose row is expired and still in the
\* table.
C3_Witness ==
  \E p \in Procs :
    /\ Done(p, "save") /\ result[p] = Ok
    /\ \E r \in RowsOf(rows, record[p].id) : r.expiry_date < dbNow

\* C4: a save that returns Ok leaves exactly one row with the record's id, holding
\* the record's data and expiry, whether or not the id had a row before; rows with
\* another id are unchanged; the same save once more changes nothing.
C4_SaveIsUpsert ==
  [][\A p \in Procs :
       (op[p] = "save" /\ pc[p] = "save_with_conn" /\ pc'[p] = "done" /\ result'[p] = Ok)
       => LET r == record[p]
              mine == RowsOf(rows', r.id)
          IN /\ Cardinality(mine) = 1
             /\ \A row \in mine :
                  /\ Decodable(row.data) /\ from_slice(row.data) = r
                  /\ row.expiry_date = r.expiry_date
             /\ rows' \ mine = rows \ RowsOf(rows, r.id)
             /\ UpsertStmt(rows', IdToString(r.id), to_vec(r),
                           Instant(timestamp_from_offset(r.expiry_date))) = rows'
    ]_vars

\* C4 witness: two saves of the same id with different expiry dates have both
\* returned Ok, so one of them replaced the row of the other.
C4_Witness ==
  \E p \in Procs : \E q \in Procs :
    /\ Done(p, "save") /\ result[p] = Ok
    /\ Done(q, "save") /\ result[q] = Ok
    /\ record[p].id = record[q].id
    /\ record[p].expiry_date # record[q].expiry_date
    /\ Cardinality(RowsOf(rows, record[p].id)) = 1

\* The rows with the id of p's load whose expiry is strictly later than p's now.
LiveFor(p) ==
  {r \in RowsOf(rows, session_id[p]) : r.expiry_date > Instant(now[p])}

\* C5: a load that returns Ok returns Some exactly when a row with the id exists whose
\* expiry is strictly later than the now of the call; with no such row (absent,
\* expired or expiring at now) it returns None, the row still being in the table.
C5_LoadGatedByExpiry ==
  [][\A p \in Procs :
       (pc[p] = "query" /\ pc'[p] = "done")
       => /\ result'[p].t = "Ok" => (result'[p].some <=> LiveFor(p) # {})
          /\ LiveFor(p) = {} => result'[p] \in {OkNone, Failure}
          /\ (LiveFor(p) # {} /\ \A r \in LiveFor(p) : Decodable(r.data))
               => \/ result'[p] = Failure
                  \/ result'[p].t = "Ok" /\ result'[p].some
    ]_vars

\* C5 witness: a load has returned None for an id whose row is in the table and
\* expires exactly at the now of the call.
C5_Witness ==
  \E p \in Procs :
    /\ Done(p, "load") /\ result[p] = OkNone
    /\ \E r \in RowsOf(rows, session_id[p]) : r.expiry_date = Instant(now[p])

C7_DeleteIdempotent ==
  [][\A p \in Procs :
       (pc[p] = "delete" /\ pc'[p] = "done")
       => \/ result'[p] = Failure /\ rows' \in {rows, rows \ RowsOf(rows, session_id[p])}
          \/ /\ result'[p] = Ok
             /\ RowsOf(rows', session_id[p]) = {}
             /\ rows' = rows \ RowsOf(rows, session_id[p])
             /\ DeleteStmt(rows', IdToString(session_id[p])) = rows'
    ]_vars

\* C7 witness: two deletes of the same id have both returned Ok (one of them found
\* no row) and a row with another id is still in the table.
C7_Witness ==
  \E p \in Procs : \E q \in Procs :
    /\ p # q
    /\ Done(p, "delete") /\ result[p] = Ok
    /\ Done(q, "delete") /\ result[q] = Ok
    /\ session_id[p] = session_id[q]
    /\ RowsOf(rows, session_id[p]) = {}
    /\ rows # {}

\* C8: no step of load changes the table, whatever load returns.
C8_LoadDoesNotMutate ==
  [][\A p \in Procs :
       (op[p] = "load" /\ pc'[p] # pc[p]) => rows' = rows
    ]_vars

\* C8 witness: a load has returned None for an id whose expired row is still in the
\* table.
C8_Witness ==
  \E p \in Procs :
    /\ Done(p, "load") /\ result[p] = OkNone
    /\ \E r \in RowsOf(rows, session_id[p]) : r.expiry_date < Instant(now[p])

\* C9: once save or create has returned Ok for a record, a load of the id the record
\* then holds returns that very record (id, expiry, payload), as long as the row
\* written is still in the table and its expiry is later than the now of the load.
C9_StoreRoundTrip ==
  [][\A p \in Procs : \A q \in Procs :
       ( /\ pc[p] = "done" /\ op[p] \in {"save", "create"} /\ result[p] = Ok
         /\ pc[q] = "query" /\ pc'[q] = "done"
         /\ session_id[q] = record[p].id
         /\ \E r \in RowsOf(rows, record[p].id) :
              r.data = to_vec(record[p]) /\ r.expiry_date = record[p].expiry_date
         /\ record[p].expiry_date > Instant(now[q]) )
       => result'[q] \in {OkSome(record[p]), Failure}
    ]_vars

\* C9 witness: a create has returned Ok and a load of its record's id has returned
\* that record.
C9_Witness ==
  \E p \in Procs : \E q \in Procs :
    /\ Done(p, "create") /\ result[p] = Ok
    /\ Done(q, "load") /\ result[q] = OkSome(record[p])

\* C10: every call of migrate, in sequence or concurrently from several store
\* instances, returns Ok (it fails only when the pool or the connection fails) and
\* leaves exactly one schema and one table.
C10_MigrateIdempotent ==
  \A s \in Stores :
    mpc[s] = "done"
    => /\ mresult[s] \in {Ok, MigrateFailureError}
       /\ mresult[s] = Ok
            => /\ Cardinality({n \in pg_namespace : n.nspname = schema_name}) = 1
               /\ Cardinality({c \in pg_class : c.nspname = schema_name
                                                /\ c.relname = table_name}) = 1

\* C11: when the schema-creation statement of migrate fails with a duplicate-schema
\* or unique-violation error, migrate goes on as after a success: the table statement
\* that follows does not fail on account of it (it fails only when the pool or the
\* connection fails); when schema creation fails with any other error, migrate returns
\* at once and nothing is committed.
C11_DuplicateSchemaIsSuccess ==
  [][\A s \in Stores :
       /\ (mpc[s] = "create_table" /\ mtx[s].aborted /\ mpc'[s] # mpc[s])
            => \/ mpc'[s] \in {"table_insert", "commit"}
               \/ mresult'[s] = MigrateFailureError
       /\ (mpc[s] = "schema_insert" /\ mpc'[s] = "done")
            => /\ mresult'[s].t = "Err"
               /\ pg_namespace' = pg_namespace /\ pg_class' = pg_class
    ]_vars

C13_ErrorKindsClosed ==
  [][\A p \in Procs :
       /\ pc'[p] = "done" /\ pc[p] # "done" /\ result'[p].t = "Err"
            => /\ result'[p].kind \in {"Backend", "Encode", "Decode"}
               /\ result'[p].inner = "encode failure" <=> result'[p].kind = "Encode"
               /\ result'[p].inner = "decode failure" <=> result'[p].kind = "Decode"
               /\ result'[p].kind = "Encode" => op[p] \in {"create", "save"}
               /\ result'[p].kind = "Decode" => op[p] = "load"
       /\ EncodeFailure(p) => result'[p].t = "Err" /\ result'[p].kind = "Encode"
       /\ BackendFailure(p) => result'[p].t = "Err" /\ result'[p].kind = "Backend"
       /\ ( /\ pc[p] = "query" /\ pc'[p] = "done"
            /\ \E r \in LiveFor(p) : ~Decodable(r.data) )
            => result'[p].t = "Err" /\ result'[p].kind \in {"Decode", "Backend"}
    ]_vars

\* C13 witness: a load of a row whose payload does not deserialize has returned Decode
\* while a create has returned Encode.
C13_Witness ==
  \E p \in Procs : \E q \in Procs :
    /\ Done(p, "load") /\ result[p].t = "Err" /\ result[p].kind = "Decode"
    /\ Done(q, "create") /\ result[q].t = "Err" /\ result[q].kind = "Encode"

\* C14: while the server is running and shutdown has not been requested, the eviction
\* task is alive, whatever its earlier invocations of delete_expired returned, so that
\* it invokes delete_expired again at its next tick and every expired row is
\* eventually removed.
C14_EvictionKeepsRunning ==
  (rpc = "serve" /\ ~requested) => task = "alive"

\* C15: once shutdown is requested and graceful_shutdown runs, the eviction task is
\* eventually aborted (it makes no further step), whether or not its interval ticks
\* again.
C15_ShutdownAbortsEviction ==
  (requested /\ gpc # "none") ~> (gpc = "done" /\ task # "alive")

\* C15 witness: the task was aborted while it was waiting for its next tick.
C15_Witness ==
  /\ requested
  /\ gpc = "done"
  /\ task = "aborted"
  /\ pc[EvictionTask] = "idle"

\* C16: run invokes migrate once, after make_tls_config and AppState::new and before
\* anything else; the eviction task, the graceful_shutdown task, every server and
\* every request through the session layer exist only after migrate has returned Ok
\* (the table is there); if migrate fails, run returns the error, no task is spawned
\* and no server is started.
C16_MigrateBeforeServing ==
  /\ rpc \in {"tls_config", "app_state"} => mpc[RunStore] = "idle"
  /\ rpc \notin {"tls_config", "app_state", "migrate"}
       => /\ mpc[RunStore] \in {"idle", "done"}
          /\ mpc[RunStore] = "idle" => rresult \in TlsConfigErrors \cup {RunError("app_state")}
  /\ ( \/ task # "none" \/ gpc # "none" \/ servers # {} \/ connections > 0
       \/ \E p \in Requests : pc[p] # "idle" )
       => /\ mpc[RunStore] = "done"
          /\ mresult[RunStore] = Ok
          /\ TableCommitted
  /\ (mpc[RunStore] = "done" /\ mresult[RunStore] # Ok)
       => /\ rpc \in {"migrate", "returned"}
          /\ rpc = "returned" => rresult = RunError(mresult[RunStore])
          /\ task = "none" /\ gpc = "none" /\ servers = {}

\* C16 witness: migrate has failed and run has returned its error.
C16_Witness ==
  /\ rpc = "returned"
  /\ mresult[RunStore].t = "Err"
  /\ rresult = RunError(mresult[RunStore])
  /\ task = "none"

\* A caller that is inside an operation: between its pool.get() and its return.
InFlight(p) == pc[p] \notin {"idle", "done"}

\* C17: every store operation in flight holds exactly one connection of the pool, from
\* its call to its return (create: through the existence checks, the insert and the
\* commit), and gives it back on success and on every error; so the connections in
\* use never exceed the pool size of 16, and with no operation in flight the store
\* holds none.
C17_OneConnectionPerOperation ==
  /\ in_use - others = Cardinality({p \in Procs : InFlight(p)})
  /\ in_use <= max_size
  /\ others >= 0
  /\ (\A p \in Procs : ~InFlight(p)) => in_use = others

\* C17 witness: the pool is exhausted while a create stands before its commit,
\* another operation has returned an error, and the store holds one connection.
C17_Witness ==
  /\ in_use = max_size
  /\ \E p \in Procs : \E q \in Procs :
       /\ op[p] = "create" /\ pc[p] = "commit"
       /\ pc[q] = "done" /\ result[q].t = "Err"
  /\ in_use - others = 1

\* What the environment, the files (the first of them, in the builder's order, that
\* sets the field) and the defaults give for the field that is followed.
BelowCli ==
  IF env # None THEN env[1]
  ELSE IF \E i \in DOMAIN files : files[i] # None
       THEN LET first == CHOOSE i \in DOMAIN files :
                           files[i] # None /\ \A j \in 1..(i - 1) : files[j] = None
            IN files[first][1]
       ELSE CASE setting = "http_port" -> 8080
              [] setting = "https_port" -> 8443
              [] setting = "monitoring_port" -> 9090
              [] setting = "tls_enabled" -> FALSE

\* C18 (as stated): the effective http_port, https_port and monitoring_port are the
\* command-line value if given, otherwise the environment value, otherwise the
\* configuration-file value, otherwise the default (8080, 8443, 9090); tls_enabled is
\* false by default and true if any source sets it.
C18_ConfigPrecedence ==
  cpc = "done"
  => IF setting = "tls_enabled"
     THEN cfg[1] = (cli \/ env = Some(TRUE) \/ \E i \in DOMAIN files : files[i] = Some(TRUE))
     ELSE cfg[1] = IF cli # None THEN cli[1] ELSE BelowCli

\* C18 (amended): the ports as stated; tls_enabled is true if the command-line flag
\* is given, otherwise it is the environment value if set, otherwise the value of the
\* first configuration file that sets it, otherwise false.
C18_ConfigPrecedenceAmended ==
  cpc = "done"
  => IF setting = "tls_enabled"
     THEN cfg[1] = (cli \/ BelowCli)
     ELSE cfg[1] = IF cli # None THEN cli[1] ELSE BelowCli

\* C18 witness: the environment sets tls_enabled to false, a configuration file sets
\* it to true, the flag is not given, and the configuration loaded has it false.
C18_Witness ==
  /\ cpc = "done"
  /\ setting = "tls_enabled"
  /\ cli = FALSE
  /\ env = Some(FALSE)
  /\ \E i \in DOMAIN files : files[i] = Some(TRUE)
  /\ cfg = Some(FALSE)

\* C19: a create called with an id that has a row, live or expired, replaces the id
\* for as long as the id it holds has a row and writes nothing meanwhile; it leaves
\* the existence check only with an id that has no row; its commit leaves exactly one
\* row with the id the caller sees, holding the caller's record, and no row with
\* another id changes; the row that was there before keeps its data and expiry.
C19_CreateOnExistingId ==
  [][/\ RowsOf(rows', ExistingId) = RowsOf(rows, ExistingId)
     /\ \A p \in Procs :
          /\ (/\ pc[p] = "id_exists" /\ id_exists_query(rows, IdToString(record[p].id))
              /\ (pc'[p] # pc[p] \/ record'[p] # record[p]))
             => /\ pc'[p] # "save_with_conn"
                /\ rows' = rows
                /\ record'[p] = [record[p] EXCEPT !.id = record'[p].id]
          /\ (pc[p] = "commit" /\ pc'[p] = "done" /\ result'[p] = Ok)
             => LET mine == RowsOf(rows', record'[p].id)
                IN /\ mine = {BoundRow(record'[p])}
                   /\ record'[p].id # ExistingId
                   /\ rows' \ mine = rows \ RowsOf(rows, record'[p].id)
    ]_vars

\* C19 witness: a create called with the id of an expired row has returned Ok with
\* another id, its row is in the table and the expired row is as it was.
C19_Witness ==
  \E p \in Procs :
    /\ Done(p, "create") /\ result[p] = Ok
    /\ record[p].id # ExistingId
    /\ BoundRow(record[p]) \in rows
    /\ \E expiry \in Times :
         /\ expiry < dbNow
         /\ RowsOf(rows, ExistingId) = {BoundRow(ExistingRecord(expiry))}

\* The steps of p that belong to a call of create.
CreateStep(p) == op'[p] = "create" /\ (pc'[p] # pc[p] \/ record'[p] # record[p])

\* C20: no step of a create that returns an error changes the table: neither a step
\* before its last one nor the step at which it returns the error, the commit
\* included.
C20_CreateErrorLeavesTable ==
  [][\A p \in Procs :
       (CreateStep(p) /\ ~(pc'[p] = "done" /\ result'[p] = Ok)) => rows' = rows
    ]_vars

\* C20, amended: no step of create before the commit changes the table, so a create
\* that returns an error before its commit has changed nothing; a commit that returns
\* an error has left the table unchanged or has taken effect with its reply lost, and
\* then the table holds the record's row under record.id and every row with another
\* id is unchanged.
C20_CreateErrorBeforeCommit ==
  [][\A p \in Procs :
       CreateStep(p) =>
         /\ pc[p] # "commit" => rows' = rows
         /\ (pc[p] = "commit" /\ result'[p] # Ok) =>
              /\ result'[p] = Failure
              /\ \/ rows' = rows
                 \/ /\ RowsOf(rows', record[p].id) = {BoundRow(record[p])}
                    /\ rows' \ RowsOf(rows', record[p].id) = rows \ RowsOf(rows, record[p].id)
    ]_vars

\* C20 witness: one create has failed to encode its payload and no row has its id;
\* another has returned the error of its commit and its row is in the table.
C20_Witness ==
  \E p \in Procs : \E q \in Procs :
    /\ Done(p, "create") /\ result[p] = Err("Encode", "encode failure")
    /\ RowsOf(rows, record[p].id) = {}
    /\ Done(q, "create") /\ result[q] = Failure
    /\ BoundRow(record[q]) \in rows

\* C21: a load that returns a record returns one complete record, the data and the
\* expiry of a row the table holds at the instant of its query, and every row a step
\* writes is the complete record of a caller (its data with its expiry), so after
\* concurrent saves of one id the row is exactly one of the saved records.
C21_NoPartialWrite ==
  [][/\ \A p \in Procs :
          (pc[p] = "query" /\ pc'[p] = "done" /\ result'[p].t = "Ok" /\ result'[p].some)
          => /\ result'[p].value.id = session_id[p]
             /\ BoundRow(result'[p].value) \in rows
     /\ \A r \in rows' \ rows :
          \E q \in Procs : op[q] \in {"create", "save"} /\ r = BoundRow(record[q])
    ]_vars

\* C21 witness: a load has returned the complete previous record of an id while a
\* save of that id with another expiry has since returned Ok and its row is the one
\* in the table.
C21_Witness ==
  \E p \in Procs : \E q \in Procs :
    /\ Done(p, "load") /\ result[p].t = "Ok" /\ result[p].some
    /\ Done(q, "save") /\ result[q] = Ok
    /\ record[q].id = session_id[p]
    /\ record[q].expiry_date # result[p].value.expiry_date
    /\ RowsOf(rows, record[q].id) = {BoundRow(record[q])}

\* C22: a delete_expired never removes a row that a load executed at the same instant
\* would return (a row whose expiry is strictly later than the now that load passes),
\* whatever the offset between the application's clock and the backend's.
C22_SameNow ==
  [][\A p \in Procs :
       (pc[p] = "delete_expired" /\ pc'[p] = "done")
       => \A r \in rows \ rows' :
            r \notin LoadQuery(rows, r.id, Instant(timestamp_from_offset(appNow)))
    ]_vars

\* The error of a load whose row does not decode.
DecodeError == Err("Decode", "decode failure")

\* C23: a load whose row does not decode returns Decode (or the failure of the pool or
\* the driver) and changes no row, the corrupt one included; Decode is returned for no
\* other reason; and while a corrupt row is in the table, a load of an id whose row
\* decodes and is unexpired returns that row's record.
C23_DecodeErrorIsLocal ==
  [][\A p \in Procs :
       (pc[p] = "query" /\ pc'[p] = "done")
       => LET corrupt == {r \in LiveFor(p) : ~Decodable(r.data)}
          IN /\ corrupt # {} => (result'[p] \in {DecodeError, Failure} /\ rows' = rows)
             /\ result'[p] = DecodeError => corrupt # {}
             /\ (corrupt = {} /\ LiveFor(p) # {} /\ \E r \in rows : ~Decodable(r.data))
                  => \/ result'[p] = Failure
                     \/ \E r \in LiveFor(p) : result'[p] = OkSome(from_slice(r.data))
    ]_vars

\* C23 witness: one load has returned Decode, the corrupt row is still in the table,
\* and a load of another id has returned the record of its row.
C23_Witness ==
  \E p \in Procs : \E q \in Procs :
    /\ Done(p, "load") /\ result[p] = DecodeError
    /\ \E r \in RowsOf(rows, session_id[p]) : ~Decodable(r.data)
    /\ Done(q, "load") /\ result[q].t = "Ok" /\ result[q].some
    /\ session_id[q] # session_id[p]
    /\ BoundRow(result[q].value) \in rows

\* The step at which the call of p ends with the failure of the pool or the driver,
\* p being in save, load, delete or delete_expired.
FailureEnds(p) ==
  /\ op[p] \in {"save", "load", "delete", "delete_expired"}
  /\ pc[p] \notin {"idle", "done"} /\ pc'[p] = "done" /\ result'[p] = Failure

\* What the one statement of p's operation does to the table.
StatementEffect(p) ==
  CASE op[p] = "save" -> UpsertStmt(rows, IdToString(record[p].id), to_vec(record[p]),
                                    Instant(timestamp_from_offset(record[p].expiry_date)))
    [] op[p] = "delete" -> DeleteStmt(rows, IdToString(session_id[p]))
    [] op[p] = "delete_expired" -> DeleteExpiredStmt(rows, dbNow)
    [] OTHER -> rows

\* The store does not retry: a step that changes the table is the last step of a
\* call, and create stays in its loop only by replacing an id that the existence
\* check reported as taken.
NoRetry ==
  /\ rows' # rows => \E p \in Procs : pc[p] \notin {"idle", "done"} /\ pc'[p] = "done"
  /\ \A p \in Procs :
       (pc[p] = "id_exists" /\ pc'[p] = "id_exists" /\ record'[p] # record[p])
       => id_exists_query(rows, IdToString(record[p].id))
  /\ \A p \in Procs :
       (pc[p] = "id_exists" /\ pc'[p] = "done") => result'[p] = Failure

\* C24: the store never retries, and a failure of the pool or the driver in save,
\* load, delete or delete_expired ends the call with Backend and the table unchanged.
C24_NoRetryTableUnchanged ==
  [][/\ NoRetry
     /\ \A p \in Procs : FailureEnds(p) => rows' = rows
    ]_vars

\* C24, amended: the store never retries, and a failure of the pool or the driver in
\* save, load, delete or delete_expired ends the call with Backend and the table
\* either unchanged or changed by the call's one statement, carried out once (its
\* reply was lost).
C24_NoRetrySingleAttempt ==
  [][/\ NoRetry
     /\ \A p \in Procs : FailureEnds(p) => rows' \in {rows, StatementEffect(p)}
    ]_vars

\* C24 witness: a save has ended with Backend and no row has its id, and a create has
\* ended with Backend while its id is taken by a row that is not its own.
C24_Witness ==
  \E p \in Procs : \E q \in Procs :
    /\ Done(p, "save") /\ result[p] = Failure
    /\ RowsOf(rows, record[p].id) = {}
    /\ Done(q, "create") /\ result[q] = Failure
    /\ RowsOf(rows, record[q].id) # {}
    /\ BoundRow(record[q]) \notin rows

\* The id that create of p holds has a row.
Taken(p) == id_exists_query(rows, IdToString(record[p].id))

\* C25: create leaves its loop only with an id that has no row (it goes on to the
\* insert) or with the failure of the pool or the driver, never because of the
\* collisions it has had; and it does not stay in the loop forever holding an id that
\* has no row.
C25_UnboundedRegeneration ==
  /\ [][\A p \in Procs :
          (pc[p] = "id_exists" /\ pc'[p] # "id_exists")
          => \/ pc'[p] = "done" /\ result'[p] = Failure
             \/ pc'[p] = "save_with_conn" /\ ~Taken(p) /\ record'[p] = record[p]
       ]_vars
  /\ \A p \in Procs : []<>~(pc[p] = "id_exists" /\ ~Taken(p))

\* C25 witness: a create called with a taken id is in its loop, holding another id,
\* and every id the generator can produce has a row: whatever id comes next collides.
C25_Witness ==
  \E p \in Procs :
    /\ pc[p] = "id_exists" /\ record[p].id # ExistingId
    /\ \A i \in Ids : RowsOf(rows, i) # {}

\* The lifecycle state of the record with id i in table tbl at the instant t.
Lifecycle(tbl, t, i) ==
  IF RowsOf(tbl, i) = {} THEN "absent"
  ELSE IF \E r \in RowsOf(tbl, i) : r.expiry_date > t THEN "live"
  ELSE "expired"

\* The call of p ends at this step, p being in one of the operations ops.
Ends(p, ops) == op[p] \in ops /\ pc[p] \notin {"idle", "done"} /\ pc'[p] = "done"

\* C26: the lifecycle state of a record changes only from absent to live by a create
\* or a save, from live to expired by the passage of time, and from live or expired to
\* absent by a delete or a delete_expired; in particular no step takes a record from
\* expired back to live.
C26_LifecycleTransitions ==
  [][\A i \in Ids :
       LET before == Lifecycle(rows, dbNow, i)
           after == Lifecycle(rows', dbNow', i)
       IN before # after =>
            \/ /\ before = "absent" /\ after = "live"
               /\ \E p \in Procs : Ends(p, {"create", "save"})
            \/ /\ before = "live" /\ after = "expired"
               /\ dbNow' # dbNow
            \/ /\ before \in {"live", "expired"} /\ after = "absent"
               /\ \E p \in Procs : Ends(p, {"delete", "delete_expired"})
    ]_vars

\* The number of double quotes in a text.
Quotes(text) == Cardinality({i \in 1..Len(text) : text[i] = "\""})

MigrateStep(s) == mpc'[s] # mpc[s] \/ mtx'[s] # mtx[s]

\* What the transaction of the migrate of s has created.
CreatedSchema(s) == IF mtx[s].schema THEN {[nspname |-> schema_name, by |-> s]} ELSE {}
CreatedTable(s) ==
  IF mtx[s].table THEN {[nspname |-> schema_name, relname |-> table_name, by |-> s]} ELSE {}

\* C29: no step of a migrate that returns an error leaves a schema or a table in the
\* database: neither a step before its last one nor the step at which the error is
\* returned, the commit included.
C29_MigrateAllOrNothing ==
  [][\A s \in Stores :
       (MigrateStep(s) /\ ~(mpc'[s] = "done" /\ mresult'[s] = Ok))
       => /\ pg_namespace' = pg_namespace
          /\ pg_class' = pg_class
    ]_vars

\* C29, amended: no step of migrate before the commit changes the database, so a
\* migrate that returns an error before its commit leaves nothing; a commit that
\* returns an error has left nothing or, its reply lost, all that the call created,
\* the schema and the table together.
C29_MigrateErrorBeforeCommit ==
  [][\A s \in Stores :
       MigrateStep(s) =>
         /\ mpc[s] # "commit" => (pg_namespace' = pg_namespace /\ pg_class' = pg_class)
         /\ (mpc[s] = "commit" /\ mresult'[s] # Ok) =>
              \/ pg_namespace' = pg_namespace /\ pg_class' = pg_class
              \/ /\ pg_namespace' = pg_namespace \cup CreatedSchema(s)
                 /\ pg_class' = pg_class \cup CreatedTable(s)
    ]_vars

\* C29 witness: one migrate has returned a connection failure and its schema and its
\* table are in the database (the reply of its commit was lost); another has returned
\* an error and nothing from it is in the database.
C29_Witness ==
  \E s \in Stores : \E o \in Stores :
    /\ mpc[s] = "done" /\ mresult[s] = MigrateFailureError
    /\ \E n \in pg_namespace : n.by = s
    /\ \E c \in pg_class : c.by = s
    /\ mpc[o] = "done" /\ mresult[o].t = "Err"
    /\ \A n \in pg_namespace : n.by # o
    /\ \A c \in pg_class : c.by # o

\* C30: every operation that has been started, waiting for a connection of the
\* exhausted pool included, completes, unless creates keep colliding (a create is in
\* its loop with a taken id); no operation waits for ever for a connection that
\* operations which wait themselves would have to give back.
C30_NoPoolDeadlock ==
  \A p \in Procs :
    (op[p] # "none") ~> (pc[p] = "done" \/ \E q \in Procs : pc[q] = "id_exists" /\ Taken(q))

\* C30 witness: the pool is exhausted, a caller waits at pool.get() and another
\* holds its connection in a create that stands before its commit.
C30_Witness ==
  /\ in_use = max_size
  /\ \E p \in Procs : \E q \in Procs :
       /\ op[p] = "started" /\ pc[p] = "idle"
       /\ op[q] = "create" /\ pc[q] = "commit"

\* C31: the eviction task is aborted only by graceful_shutdown, after shutdown was
\* requested and handle.graceful_shutdown() was called, in the step in which the loop
\* has read handle.connection_count() = 0; it is never aborted while a connection is
\* counted as open, and an aborted task shows that graceful_shutdown has ended.
C31_AbortAfterDrain ==
  /\ [](task = "aborted" => (requested /\ gpc = "done"))
  /\ [][ (task' = "aborted" /\ task # "aborted")
           => /\ task = "alive"
              /\ requested
              /\ gpc = "drain" /\ gpc' = "done"
              /\ connections = 0 /\ connections' = 0 ]_vars

\* C31 witness: the task was aborted after the app had served a request on a connection
\* that has ended since.
C31_Witness ==
  /\ task = "aborted"
  /\ connections = 0
  /\ "app" \in servers
  /\ \E p \in Requests : pc[p] = "done" /\ result[p] = Ok

\* Exactly one of tls_cert and tls_key is set.
OneOfCertAndKey == (tls_cert = None) # (tls_key = None)

\* C32: with TLS enabled, make_tls_config has succeeded only with tls_cert and tls_key
\* both set (key-pair mode) or both unset (ACME mode); with exactly one of them set it
\* returns an error and run returns that error: migrate was not called, the table is
\* not there, no task was spawned and no listener is bound.
C32_TlsCertAndKeyTogether ==
  /\ tls_config_result # None
       => /\ tls_enabled
          /\ ~OneOfCertAndKey
          /\ tls_config_result[1].config = (IF tls_cert = None THEN "acme" ELSE "keypair")
  /\ (tls_enabled /\ OneOfCertAndKey /\ rpc # "tls_config")
       => /\ rpc = "returned"
          /\ rresult = RunError("Both --tls-cert and --tls-key must be provided together")
          /\ rresult = make_tls_config(tls_cert, tls_key, TRUE)
          /\ tls_config_result = None
          /\ mpc[RunStore] = "idle"
          /\ ~TableCommitted
          /\ servers = {}
          /\ task = "none"
          /\ gpc = "none"

\* C32 witness: TLS is enabled with a certificate and no key, and run has returned.
C32_Witness ==
  /\ tls_enabled
  /\ tls_cert # None
  /\ tls_key = None
  /\ rpc = "returned"

\* C33: a successful with_schema_name changes schema_name and nothing else of the
\* store, a successful with_table_name changes table_name and nothing else: the other
\* name and the pool are those of the store it was called on; a failed one gives no
\* store; and a store built with new alone has the schema "tower_sessions" and the
\* table "session" on the pool it was given.
C33_SettersFrame ==
  /\ [](bresult = NoResult
          => /\ bstore.pool \in Pools
             /\ bstore.schema_name = <<"t","o","w","e","r","_","s","e","s","s","i","o","n","s">>
             /\ bstore.table_name = <<"s","e","s","s","i","o","n">>)
  /\ [][ /\ (WithSchemaName /\ bresult'.t = "Ok")
              => /\ bstore'.schema_name = bname
                 /\ bstore'.table_name = bstore.table_name
                 /\ bstore'.pool = bstore.pool
         /\ (WithTableName /\ bresult'.t = "Ok")
              => /\ bstore'.table_name = bname
                 /\ bstore'.schema_name = bstore.schema_name
                 /\ bstore'.pool = bstore.pool
         /\ bresult'.t = "Err" => bstore' = NoStore ]_vars

\* C33 witness: on the second pool, with_table_name and then with_schema_name have
\* succeeded with a name that is neither default, or with_schema_name alone has.
C33_Witness ==
  /\ bresult.t = "Ok"
  /\ bstore.pool = "other_pool"
  /\ bstore.schema_name = bname
  /\ bstore.schema_name # schema_name
  /\ bstore.table_name \in {bname, table_name}

====
